---- MODULE Spec2Model ----
(***************************************************************************)
(* Model of the priorities-document core of obsidian-project-control:      *)
(* the text operations of ProjectControlPlugin (parsePrioritiesFile,       *)
(* writePrioritiesFile, removeFromPriorities, addToPriorities,             *)
(* moveProjectInPriorities, syncProjectStatusToPriorities,                 *)
(* moveProjectToSubsection) and the write queue of ProjectDashboardView.   *)
(*                                                                         *)
(* A string is a sequence of tokens.  The characters the regular           *)
(* expressions of the code look at are single tokens ("#", " ", "-", "[",  *)
(* "]", "|", "\n"); a word without any of them (a project name, a section  *)
(* name, an emoji, a word of free text) is one token.  Offsets are 1-based *)
(* here and 0-based in the code: indexOf(..) = -1 reads IndexOf(..) = 0.   *)
(***************************************************************************)
EXTENDS Integers, Sequences, FiniteSets, TLC

----------------------------------------------------------------------------
(* String primitives of the JavaScript runtime, as the code uses them.     *)

NL == "\n"

\* s.startsWith(pat, i-1)
StartsAt(s, i, pat) ==
    /\ i >= 1
    /\ i + Len(pat) - 1 <= Len(s)
    /\ SubSeq(s, i, i + Len(pat) - 1) = pat

\* s.indexOf(pat), 1-based; 0 when pat does not occur
IndexOf(s, pat) ==
    LET hits == {i \in 1..Len(s) : StartsAt(s, i, pat)}
    IN  IF hits = {} THEN 0 ELSE CHOOSE i \in hits : \A j \in hits : i <= j

\* s.lastIndexOf(pat), 1-based; 0 when pat does not occur
LastIndexOf(s, pat) ==
    LET hits == {i \in 1..Len(s) : StartsAt(s, i, pat)}
    IN  IF hits = {} THEN 0 ELSE CHOOSE i \in hits : \A j \in hits : i >= j

\* s.substring(i-1)
From(s, i) == SubSeq(s, i, Len(s))

\* s.trim()
RECURSIVE TrimLeft(_)
TrimLeft(s) ==
    IF s # <<>> /\ Head(s) = " " THEN TrimLeft(Tail(s)) ELSE s

RECURSIVE TrimRight(_)
TrimRight(s) ==
    IF s # <<>> /\ s[Len(s)] = " " THEN TrimRight(SubSeq(s, 1, Len(s) - 1)) ELSE s

Trim(s) == TrimRight(TrimLeft(s))

\* content.split('\n')
RECURSIVE Split(_)
Split(c) ==
    LET i == IndexOf(c, <<NL>>)
    IN  IF i = 0 THEN <<c>>
        ELSE <<SubSeq(c, 1, i - 1)>> \o Split(From(c, i + 1))

\* lines.join('\n')
RECURSIVE Join(_)
Join(lines) ==
    IF lines = <<>> THEN <<>>
    ELSE IF Len(lines) = 1 THEN lines[1]
    ELSE lines[1] \o <<NL>> \o Join(Tail(lines))

\* the length of the longest run of tokens outside stop that starts at s[i]
RECURSIVE RunLen(_, _, _)
RunLen(s, i, stop) ==
    IF i > Len(s) \/ s[i] \in stop THEN 0 ELSE 1 + RunLen(s, i + 1, stop)

\* content.replace(/\n{3,}/g, '\n\n'): every maximal run of three or more
\* newlines becomes two newlines
RECURSIVE CollapseNewlines(_)
CollapseNewlines(c) ==
    IF c = <<>> THEN <<>>
    ELSE IF Head(c) # NL THEN <<Head(c)>> \o CollapseNewlines(Tail(c))
    ELSE LET n == RunLen(c, 1, {t \in {c[k] : k \in 1..Len(c)} : t # NL})
         IN  (IF n >= 3 THEN <<NL, NL>> ELSE SubSeq(c, 1, n))
             \o CollapseNewlines(From(c, n + 1))

----------------------------------------------------------------------------
(* The regular expressions of the code.                                    *)

Dashes == <<"-", "-", "-">>
OpenLink == <<"[", "[">>
CloseLink == <<"]", "]">>
NoMatch == [found |-> FALSE, name |-> <<>>, alias |-> <<>>, len |-> 0]

\* /^## (.+)$/ on one line
SectionMatch(line) == StartsAt(line, 1, <<"#", "#", " ">>) /\ Len(line) >= 4
SectionName(line) == From(line, 4)

\* /^### (.+)$/ on one line
SubsectionMatch(line) == StartsAt(line, 1, <<"#", "#", "#", " ">>) /\ Len(line) >= 5
SubsectionName(line) == From(line, 5)

\* /\[\[([^\]|]+)(?:\|([^\]]+))?\]\]/ anchored at position i of the line.
\* Both groups are greedy runs that end at a token they exclude, so no
\* shorter run can match; alias <<>> stands for an unmatched second group.
LinkAt(line, i) ==
    IF ~StartsAt(line, i, OpenLink) THEN NoMatch
    ELSE LET n1 == RunLen(line, i + 2, {"]", "|"})
             j  == i + 2 + n1
             n2 == RunLen(line, j + 1, {"]"})
             k  == j + 1 + n2
         IN  IF n1 = 0 THEN NoMatch
             ELSE IF j <= Len(line) /\ line[j] = "|" /\ n2 > 0
                     /\ StartsAt(line, k, CloseLink)
                  THEN [found |-> TRUE, name |-> SubSeq(line, i + 2, j - 1),
                        alias |-> SubSeq(line, j + 1, k - 1), len |-> k + 2 - i]
             ELSE IF StartsAt(line, j, CloseLink)
                  THEN [found |-> TRUE, name |-> SubSeq(line, i + 2, j - 1),
                        alias |-> <<>>, len |-> j + 2 - i]
             ELSE NoMatch

\* line.match(linkRegex): the leftmost match
LinkMatch(line) ==
    LET hits == {i \in 1..Len(line) : LinkAt(line, i).found}
    IN  IF hits = {} THEN NoMatch
        ELSE LinkAt(line, CHOOSE i \in hits : \A j \in hits : i <= j)

\* new RegExp(`\\[\\[${escapedName}\\]\\]`) somewhere on the line
HasPlainLink(line, name) ==
    \E i \in 1..Len(line) : StartsAt(line, i, OpenLink \o name \o CloseLink)

\* new RegExp(`\\[\\[${escapedName}\\|[^\\]]+\\]\\]`) somewhere on the line
HasAliasLink(line, name) ==
    \E i \in 1..Len(line) :
        /\ StartsAt(line, i, OpenLink \o name \o <<"|">>)
        /\ LET j == i + 3 + Len(name)
               n == RunLen(line, j, {"]"})
           IN  n > 0 /\ StartsAt(line, j + n, CloseLink)

\* new RegExp(`\\[\\[${escapedName}(\\|[^\\]]+)?\\]\\]`) somewhere on the line
HasProjectLink(line, name) == HasPlainLink(line, name) \/ HasAliasLink(line, name)

\* one of the three link patterns above, by its kind
LineMatches(line, name, kind) ==
    CASE kind = "plain" -> HasPlainLink(line, name)
      [] kind = "alias" -> HasAliasLink(line, name)
      [] OTHER -> HasProjectLink(line, name)

\* lines.map: every line with a link of that kind to the project becomes ''
BlankLines(lines, name, kind) ==
    [i \in 1..Len(lines) |-> IF LineMatches(lines[i], name, kind) THEN <<>> ELSE lines[i]]

\* content.replace(pattern, '') for a pattern ^.*<link>.*$ with flags gm:
\* the pattern matches whole lines, and every line it matches becomes empty
ReplaceLines(content, name, kind) == Join(BlankLines(Split(content), name, kind))

\* beforeLink.replace(/^-\s*/, '')
StripMarker(beforeLink) ==
    IF beforeLink # <<>> /\ Head(beforeLink) = "-" THEN TrimLeft(Tail(beforeLink))
    ELSE beforeLink

\* line.substring(0, line.indexOf('[[')).replace(/^-\s*/, '').trim()
EmojiPart(line) == Trim(StripMarker(SubSeq(line, 1, IndexOf(line, OpenLink) - 1)))

----------------------------------------------------------------------------
(* The document model: PriorityEntry, SectionItem, PrioritySection.        *)

\* The projects that have a folder with a main file, and the entry names
\* the documents use; Ghost has an entry but no folder (a phantom entry).
Alpha == <<"Alpha">>
Beta == <<"Beta">>
Ghost == <<"Ghost">>
Projects == {Alpha, Beta}

EntryItem(e) == [type |-> "entry", entry |-> e]
SubsectionItem(sub) == [type |-> "subsection", subsection |-> sub]

\* formatPriorityEntry that leaves the emoji out
FormatWithoutEmoji(entry) == <<"-", " ">> \o OpenLink \o entry.projectName \o CloseLink

\* ProjectControlPlugin.formatPriorityEntry
FormatPriorityEntry(entry) ==
    LET emojiPart == IF entry.emoji # <<>> THEN entry.emoji \o <<" ">> ELSE <<>>
        linkPart  == IF entry.alias # <<>>
                     THEN OpenLink \o entry.projectName \o <<"|">> \o entry.alias \o CloseLink
                     ELSE OpenLink \o entry.projectName \o CloseLink
    IN  <<"-", " ">> \o emojiPart \o linkPart

\* an entry built from the line alone, whatever the frontmatter says
EntryFromLine(m, emojiPart, id, fm) ==
    [projectName |-> m.name, emoji |-> emojiPart, alias |-> m.alias, id |-> id]

\* The entry parsePrioritiesFile builds from the match m of linkRegex on a
\* line.  The emoji attribute of the project's frontmatter, when set,
\* overrides the prefix of the line.  id stands for the identity of the
\* entry object: the number of the line it was built from.
EntryOf(m, emojiPart, id, fm) ==
    [projectName |-> m.name,
     emoji |-> IF m.name \in DOMAIN fm /\ fm[m.name].emoji # <<>>
               THEN fm[m.name].emoji ELSE emojiPart,
     alias |-> m.alias,
     id |-> id]

ParseEntry(line, id, fm) == EntryOf(LinkMatch(line), EmojiPart(line), id, fm)

\* The loop state of parsePrioritiesFile is st = [sections, sub, hasSub,
\* found]: currentSection is the last of sections, currentSubsection is sub
\* when hasSub, found is foundProjectNames.
\* a flush that pushes nothing
NeverFlushed(st) == st

\* if (currentSection && currentSubsection) { push the subsection }
FlushSubsection(st) ==
    IF st.sections # <<>> /\ st.hasSub
    THEN [st EXCEPT !.sections[Len(st.sections)].orderedItems =
                        Append(@, SubsectionItem(st.sub)),
                    !.hasSub = FALSE]
    ELSE st

\* an entry line that closes the open subsection and goes behind it
AddBehind(st, entry) ==
    [FlushSubsection(st) EXCEPT
        !.sections[Len(st.sections)].orderedItems = Append(@, EntryItem(entry)),
        !.found = @ \cup {entry.projectName}]

\* the branch of the loop for an entry line
AddEntry(st, entry) ==
    IF st.hasSub
    THEN [st EXCEPT !.sub.entries = Append(@, entry),
                    !.found = @ \cup {entry.projectName}]
    ELSE [st EXCEPT !.sections[Len(st.sections)].orderedItems = Append(@, EntryItem(entry)),
                    !.found = @ \cup {entry.projectName}]

\* The body of the loop of parsePrioritiesFile for line number i
ParseLine(st, line, i, fm) ==
    IF SectionMatch(line)
    THEN [FlushSubsection(st) EXCEPT
             !.sections = Append(@, [name |-> SectionName(line), orderedItems |-> <<>>])]
    ELSE IF SubsectionMatch(line)
    THEN IF st.sections = <<>> THEN st
         ELSE [FlushSubsection(st) EXCEPT
                  !.sub = [name |-> SubsectionName(line), entries |-> <<>>],
                  !.hasSub = TRUE]
    ELSE IF LinkMatch(line).found /\ st.sections # <<>>
    THEN AddEntry(st, ParseEntry(line, i, fm))
    ELSE st

\* the loop over all the lines given, with no stop at a separator
RECURSIVE ParseLoopToEnd(_, _, _, _)
ParseLoopToEnd(st, lines, i, fm) ==
    IF i > Len(lines) THEN st
    ELSE ParseLoopToEnd(ParseLine(st, lines[i], i, fm), lines, i + 1, fm)

\* for (const line of content.split('\n')) { if (line.trim() === '---') break; ... }
RECURSIVE ParseLoop(_, _, _, _)
ParseLoop(st, lines, i, fm) ==
    IF i > Len(lines) \/ Trim(lines[i]) = Dashes THEN st
    ELSE ParseLoop(ParseLine(st, lines[i], i, fm), lines, i + 1, fm)

\* the flush of the final subsection, and what the method returns
ParseResult(st) ==
    [sections |-> FlushSubsection(st).sections, found |-> st.found, null |-> FALSE]

\* the value of the file's text when the path of the priorities file
\* resolves to no file: getAbstractFileByPath answers null
NoFile == <<"ENOENT">>

\* a check that takes whatever the path resolves to for a file
AnyFile(content) == TRUE

\* prioritiesFile instanceof TFile
IsFile(content) == content # NoFile

\* the null parsePrioritiesFile returns when there is no file
NoDocument == [sections |-> <<>>, found |-> {}, null |-> TRUE]

\* ProjectControlPlugin.parsePrioritiesFile on the text of the file
ParsePrioritiesFile(content, fm) ==
    IF ~IsFile(content) THEN NoDocument
    ELSE
    ParseResult(ParseLoop([sections |-> <<>>, sub |-> [name |-> <<>>, entries |-> <<>>],
                           hasSub |-> FALSE, found |-> {}],
                          Split(content), 1, fm))

\* a tag filter that lets every project through
GetAllProjects(fm) == DOMAIN fm

\* ProjectControlPlugin.getProjectsWithTag: the projects whose main file
\* carries the tag project-page; tagged stands for the tags of the file
GetProjectsWithTag(fm) == {p \in DOMAIN fm : fm[p].tagged}

\* taggedProjects.filter(p => !foundProjectNames.has(p.name))
Unlisted(parsed, fm) == {p \in GetProjectsWithTag(fm) : p \notin parsed.found}

\* The lines writePrioritiesFile rebuilds from the model
ItemLines(item) ==
    IF item.type = "subsection"
    THEN <<<<"#", "#", "#", " ">> \o item.subsection.name>>
         \o [k \in 1..Len(item.subsection.entries) |->
                FormatPriorityEntry(item.subsection.entries[k])]
    ELSE <<FormatPriorityEntry(item.entry)>>

RECURSIVE ItemsLines(_)
ItemsLines(items) ==
    IF items = <<>> THEN <<>> ELSE ItemLines(Head(items)) \o ItemsLines(Tail(items))

RECURSIVE SectionsLines(_)
SectionsLines(sections) ==
    IF sections = <<>> THEN <<>>
    ELSE <<<<"#", "#", " ">> \o Head(sections).name>>
         \o ItemsLines(Head(sections).orderedItems)
         \o <<<<>>>>
         \o SectionsLines(Tail(sections))

\* const separatorIndex = currentContent.indexOf('\n---');
\* const suffix = separatorIndex >= 0 ? currentContent.substring(separatorIndex) : '';
PreservedSuffix(currentContent) ==
    LET separatorIndex == IndexOf(currentContent, <<NL>> \o Dashes)
    IN  IF separatorIndex >= 1 THEN From(currentContent, separatorIndex) ELSE <<>>

\* ProjectControlPlugin.writePrioritiesFile: the text it writes for the
\* model `sections` when the file holds currentContent
WritePrioritiesFile(sections, currentContent) ==
    IF ~IsFile(currentContent) THEN currentContent
    ELSE Join(SectionsLines(sections)) \o PreservedSuffix(currentContent)

----------------------------------------------------------------------------
(* The text edits of the plugin: each operator gives the text the method   *)
(* passes to vault.modify when vault.read returned `content`.              *)

NoEmoji == <<>>

\* the first line that is exactly `## <section>` (RegExp(`^## ${section}$`, 'm')),
\* as a line number; 0 when there is none
SectionLine(content, section) ==
    LET lines == Split(content)
        hits == {i \in 1..Len(lines) : lines[i] = <<"#", "#", " ">> \o section}
    IN  IF hits = {} THEN 0 ELSE CHOOSE i \in hits : \A j \in hits : i <= j

\* content.slice(0, insertPos) + '\n' + newLine + content.slice(insertPos),
\* insertPos being the end of line number at
InsertLineAfter(content, at, newLine) ==
    LET lines == Split(content)
    IN  Join(SubSeq(lines, 1, at) \o <<newLine>> \o SubSeq(lines, at + 1, Len(lines)))

\* content.slice(0, pos-1) + text + content.slice(pos-1)
InsertAt(content, pos, text) ==
    SubSeq(content, 1, pos - 1) \o text \o From(content, pos)

\* removeFromPriorities without its first pattern: only aliased references go
RemoveAliasedOnly(content, projectName) ==
    CollapseNewlines(ReplaceLines(content, projectName, "alias"))

\* ProjectControlPlugin.removeFromPriorities
RemoveFromPriorities(content, projectName) ==
    IF ~IsFile(content) THEN content
    ELSE CollapseNewlines(ReplaceLines(ReplaceLines(content, projectName, "plain"),
                                       projectName, "alias"))

\* `## ${section}\n${line}\n\n`
SectionBlock(section, line) == <<"#", "#", " ">> \o section \o <<NL>> \o line \o <<NL, NL>>

\* addToPriorities once the section line and the last '---' are known
AddEntryLine(content, section, entryLine, at, separatorIndex) ==
    IF at > 0 THEN InsertLineAfter(content, at, entryLine)
    ELSE IF separatorIndex > 1
    THEN InsertAt(content, separatorIndex, SectionBlock(section, entryLine))
    ELSE content

\* ProjectControlPlugin.addToPriorities
AddToPriorities(content, projectName, section, emoji) ==
    IF ~IsFile(content) THEN content
    ELSE AddEntryLine(content, section,
                      <<"-", " ">> \o (IF emoji # <<>> THEN emoji \o <<" ">> ELSE <<>>)
                          \o OpenLink \o projectName \o CloseLink,
                      SectionLine(content, section), LastIndexOf(content, Dashes))

\* the lines of the text with a link to the project
ProjectLines(lines, projectName) ==
    {i \in 1..Len(lines) : HasProjectLink(lines[i], projectName)}

\* match[0] of content.match(projectLinePattern): the first such line
FirstProjectLine(lines, hits) == lines[CHOOSE i \in hits : \A j \in hits : i <= j]

\* moveProjectInPriorities once the project line is taken out of the text
InsertProjectLine(removed, targetSection, projectLine, at, separatorIndex) ==
    IF at > 0 THEN InsertLineAfter(removed, at, projectLine)
    ELSE IF separatorIndex > 1
    THEN InsertAt(removed, separatorIndex, SectionBlock(targetSection, projectLine))
    ELSE removed \o <<NL, "#", "#", " ">> \o targetSection \o <<NL>> \o projectLine \o <<NL>>

MoveProjectLine(removed, targetSection, projectLine) ==
    InsertProjectLine(removed, targetSection, projectLine,
                      SectionLine(removed, targetSection), LastIndexOf(removed, Dashes))

\* ProjectControlPlugin.moveProjectInPriorities
MoveProjectInPriorities(content, projectName, targetSection) ==
    IF ~IsFile(content) THEN content
    ELSE IF ProjectLines(Split(content), projectName) = {}
    THEN AddToPriorities(content, projectName, targetSection, NoEmoji)
    ELSE MoveProjectLine(CollapseNewlines(ReplaceLines(content, projectName, "either")),
                         targetSection,
                         FirstProjectLine(Split(content),
                                          ProjectLines(Split(content), projectName)))

Active == <<"Active">>
ComingSoon == <<"Coming", " ", "Soon">>
DeferredEffort == <<"Deferred", " ", "Effort">>
OnHold == <<"On", " ", "Hold">>
Additional == <<"Additional">>
NoSection == <<>>

\* ProjectControlPlugin.getStatusSection; NoSection stands for null
GetStatusSection(status) ==
    CASE status = "active" -> Active
      [] status = "coming-soon" -> ComingSoon
      [] status = "deferred" -> DeferredEffort
      [] status = "on-hold" -> OnHold
      [] OTHER -> NoSection

\* ProjectControlPlugin.syncProjectStatusToPriorities
SyncProjectStatusToPriorities(content, projectName, newStatus) ==
    IF newStatus = "complete" THEN RemoveFromPriorities(content, projectName)
    ELSE IF GetStatusSection(newStatus) # NoSection
    THEN MoveProjectInPriorities(content, projectName, GetStatusSection(newStatus))
    ELSE content

\* a project folder that has no main file
Unfiled == <<"Unfiled">>

\* getAllProjects(): the project folders, in the order of the folder's children
ProjectOrder == <<Alpha, Unfiled, Beta>>

\* one turn of the loop of syncAllProjectsToPriorities; st is the text of
\* the file with the counters synced and skipped
SyncOne(st, fm, project) ==
    IF project \notin DOMAIN fm THEN [st EXCEPT !.skipped = @ + 1]
    ELSE IF fm[project].status = "" THEN [st EXCEPT !.skipped = @ + 1]
    ELSE [st EXCEPT !.content = SyncProjectStatusToPriorities(@, project, fm[project].status),
                    !.synced = @ + 1]

RECURSIVE SyncAllLoop(_, _, _)
SyncAllLoop(st, fm, projects) ==
    IF projects = <<>> THEN st
    ELSE SyncAllLoop(SyncOne(st, fm, Head(projects)), fm, Tail(projects))

\* a bulk sync that skips every project
SyncNone(content, fm, projects) ==
    [content |-> content, synced |-> 0, skipped |-> Len(projects)]

\* ProjectControlPlugin.syncAllProjectsToPriorities: one status sync after
\* the other, each on the text the one before wrote; a project with no main
\* file or no status is skipped; the counters are those of the Notice
SyncAllProjectsToPriorities(content, fm, projects) ==
    SyncAllLoop([content |-> content, synced |-> 0, skipped |-> 0], fm, projects)


----------------------------------------------------------------------------
(* In-memory edits of the model.  An entry object is found by reference    *)
(* (its id) on the dashboard and by project name in the plugin.            *)

RemoveIndex(seq, i) == SubSeq(seq, 1, i - 1) \o SubSeq(seq, i + 1, Len(seq))

InsertIndex(seq, i, x) == SubSeq(seq, 1, i - 1) \o <<x>> \o SubSeq(seq, i, Len(seq))

\* How an entry object is looked for: by reference on the dashboard
\* (item.entry === entry), by project name in the plugin
ById(entry) == [by |-> "id", id |-> entry.id, name |-> <<>>]
ByName(projectName) == [by |-> "name", id |-> 0, name |-> projectName]
Is(e, key) == IF key.by = "id" THEN e.id = key.id ELSE e.projectName = key.name

\* entries.indexOf(entry) / entries.findIndex(..), 1-based, 0 for -1
FirstEntry(entries, key) ==
    IF \A k \in 1..Len(entries) : ~Is(entries[k], key) THEN 0
    ELSE CHOOSE k \in 1..Len(entries) :
             Is(entries[k], key) /\ \A j \in 1..(k - 1) : ~Is(entries[j], key)

ItemHolds(item, key) ==
    IF item.type = "entry" THEN Is(item.entry, key)
    ELSE \E k \in 1..Len(item.subsection.entries) : Is(item.subsection.entries[k], key)

\* the first item of the loop over orderedItems that is, or holds, the entry
FirstItem(items, key) ==
    IF \A i \in 1..Len(items) : ~ItemHolds(items[i], key) THEN 0
    ELSE CHOOSE i \in 1..Len(items) :
             ItemHolds(items[i], key) /\ \A j \in 1..(i - 1) : ~ItemHolds(items[j], key)

\* a splice that takes out the whole item, a subsection with its entries too
SpliceOutItem(items, i, key) == IF i = 0 THEN items ELSE RemoveIndex(items, i)

\* orderedItems after the splice that takes the entry out of item i
SpliceOut(items, i, key) ==
    IF i = 0 THEN items
    ELSE IF items[i].type = "entry" THEN RemoveIndex(items, i)
    ELSE [items EXCEPT ![i].subsection.entries = RemoveIndex(@, FirstEntry(@, key))]

\* a removal that leaves the entry where it is
KeepEntry(items, key) == items

WithoutEntry(items, key) == SpliceOut(items, FirstItem(items, key), key)

\* a copy of the entry that has lost its alias, in place of the object
HeldEntryUnaliased(item, key) ==
    IF item.type = "entry" THEN [item.entry EXCEPT !.alias = <<>>]
    ELSE [item.subsection.entries[FirstEntry(item.subsection.entries, key)]
             EXCEPT !.alias = <<>>]

\* the entry object that item holds
HeldEntry(item, key) ==
    IF item.type = "entry" THEN item.entry
    ELSE item.subsection.entries[FirstEntry(item.subsection.entries, key)]

EntryIn(items, key) == HeldEntry(items[FirstItem(items, key)], key)

\* removeEntryFromSection that finds nothing to splice out
RemoveNothing(section, entry) == section

\* ProjectDashboardView.removeEntryFromSection
RemoveEntryFromSection(section, entry) ==
    [section EXCEPT !.orderedItems = WithoutEntry(@, ById(entry))]

\* section.orderedItems.push({ type: 'entry', entry })
PushEntry(section, entry) ==
    [section EXCEPT !.orderedItems = Append(@, EntryItem(entry))]

NoGroup == <<>>

\* the first section whose items hold the entry; 0 when none does
HolderSection(sections, key) ==
    IF \A si \in 1..Len(sections) : FirstItem(sections[si].orderedItems, key) = 0 THEN 0
    ELSE CHOOSE si \in 1..Len(sections) :
             /\ FirstItem(sections[si].orderedItems, key) > 0
             /\ \A sj \in 1..(si - 1) : FirstItem(sections[sj].orderedItems, key) = 0

\* a find that never finds the subsection
NoSubsectionNamed(items, name) == 0

\* orderedItems.find(item => item.type === 'subsection' && item.subsection.name === name),
\* 1-based, 0 when there is none
FirstSubsectionNamed(items, name) ==
    IF \A i \in 1..Len(items) :
           ~(items[i].type = "subsection" /\ items[i].subsection.name = name) THEN 0
    ELSE CHOOSE i \in 1..Len(items) :
             /\ items[i].type = "subsection" /\ items[i].subsection.name = name
             /\ \A j \in 1..(i - 1) :
                    ~(items[j].type = "subsection" /\ items[j].subsection.name = name)

\* a findIndex that always answers -1
NoSubsection(items) == 0

\* orderedItems.findIndex(item => item.type === 'subsection'), 1-based, 0 for -1
FirstSubsection(items) ==
    IF \A i \in 1..Len(items) : items[i].type # "subsection" THEN 0
    ELSE CHOOSE i \in 1..Len(items) :
             items[i].type = "subsection" /\ \A j \in 1..(i - 1) : items[j].type # "subsection"

\* the second half of moveProjectToSubsection: the items of the section the
\* entry was taken from, with the entry put back
PlaceEntry(rest, foundEntry, targetGroup, groupIdx, insertIdx) ==
    IF targetGroup # NoGroup
    THEN IF groupIdx > 0
         THEN [rest EXCEPT ![groupIdx].subsection.entries = Append(@, foundEntry)]
         ELSE Append(rest, EntryItem(foundEntry))
    ELSE InsertIndex(rest, IF insertIdx = 0 THEN Len(rest) + 1 ELSE insertIdx,
                     EntryItem(foundEntry))

MoveWithin(rest, foundEntry, targetGroup) ==
    PlaceEntry(rest, foundEntry, targetGroup,
               FirstSubsectionNamed(rest, targetGroup), FirstSubsection(rest))

MoveFrom(sections, foundSectionIdx, projectName, targetGroup) ==
    IF foundSectionIdx = 0 THEN [found |-> FALSE, sections |-> sections]
    ELSE [found |-> TRUE,
          sections |-> [sections EXCEPT ![foundSectionIdx].orderedItems =
                           MoveWithin(WithoutEntry(@, ByName(projectName)),
                                      EntryIn(@, ByName(projectName)), targetGroup)]]

\* ProjectControlPlugin.moveProjectToSubsection on the parsed sections;
\* found is FALSE when the method returns before writing.  NoGroup stands
\* for a null (or empty) targetGroup.
MoveProjectToSubsection(sections, projectName, targetGroup) ==
    MoveFrom(sections, HolderSection(sections, ByName(projectName)), projectName, targetGroup)

\* const data = await this.parsePrioritiesFile(); if (!data) return;
MoveParsed(parsed, projectName, targetGroup) ==
    IF parsed.null THEN [found |-> FALSE, sections |-> <<>>]
    ELSE MoveProjectToSubsection(parsed.sections, projectName, targetGroup)

----------------------------------------------------------------------------
(* Views of a document used to state the properties.                       *)

\* an entry without the identity of its object
Plain(e) == [projectName |-> e.projectName, emoji |-> e.emoji, alias |-> e.alias]

PlainItem(item) ==
    IF item.type = "entry" THEN EntryItem(Plain(item.entry))
    ELSE SubsectionItem([name |-> item.subsection.name,
                         entries |-> [k \in 1..Len(item.subsection.entries) |->
                                         Plain(item.subsection.entries[k])]])

\* the sections, subsections and entries of a document, in order
Structure(sections) ==
    [si \in 1..Len(sections) |->
        [name |-> sections[si].name,
         orderedItems |-> [i \in 1..Len(sections[si].orderedItems) |->
                              PlainItem(sections[si].orderedItems[i])]]]

\* the names of the sections that hold an entry of the project
SectionsOf(sections, projectName) ==
    {sections[si].name : si \in {k \in 1..Len(sections) :
        FirstItem(sections[k].orderedItems, ByName(projectName)) > 0}}

\* the trailing region: the text from the first line that is `---` after
\* trimming (where the parser stops) to the end; <<>> when there is none
RECURSIVE TrailingLines(_)
TrailingLines(lines) ==
    IF lines = <<>> THEN <<>>
    ELSE IF Trim(Head(lines)) = Dashes THEN lines
    ELSE TrailingLines(Tail(lines))

TrailingRegion(content) == TrailingLines(Split(content))

----------------------------------------------------------------------------
(* State.                                                                  *)

VARIABLES
    content,      \* the text of the priorities file (vault.read / vault.modify)
    frontmatter,  \* the frontmatter of each project's main file
    data,         \* ProjectDashboardView.data: the sections in memory
    jobs,         \* the links of ProjectDashboardView.writeQueue, oldest first
    notices,      \* the 'Failed to save changes' notices shown so far
    plugin,       \* the plugin method running outside the dashboard's queue
    before,       \* the text of the file before the last plugin method ran
    lastOp,       \* the last plugin method run to completion, and its arguments
    view          \* the dashboard view: open, closing (in onClose) or closed,
                  \* with the loadData in flight and the drag in progress

vars == <<content, frontmatter, data, jobs, notices, plugin, before, lastOp, view>>

\* no entry: the sourceEntry of a dragState that is null
NoEntry == [projectName |-> <<>>, emoji |-> <<>>, alias |-> <<>>, id |-> 0]

\* the view as onOpen leaves it; awaits is the link onClose is waiting for;
\* load is where a call of loadData stands (idle when there is none),
\* loadAwaits the link it is waiting for, text what its vault.read has got,
\* loads the number of calls so far; dragActive, sourceEntry and
\* sourceSectionIndex are this.dragActive and this.dragState
ViewOpen == [pc |-> "open", awaits |-> 0,
             load |-> "idle", loadAwaits |-> 0, text |-> <<>>, loads |-> 0,
             dragActive |-> FALSE, sourceEntry |-> NoEntry, sourceSectionIndex |-> 0]

Foundation == <<"Foundation">>
Emoji1 == <<"e1">>
Emoji2 == <<"e2">>

Statuses == {"active", "coming-soon", "deferred", "on-hold", "complete", "someday"}
SectionStatuses == {"active", "coming-soon", "deferred", "on-hold"}

NoOp == [kind |-> "none", project |-> <<>>, status |-> "", group |-> <<>>]
PluginIdle == [pc |-> "idle", kind |-> "none", project |-> <<>>, status |-> "",
               group |-> <<>>, section |-> <<>>, emoji |-> <<>>,
               sections |-> <<>>, newContent |-> <<>>, runs |-> 0, rejected |-> FALSE]

----------------------------------------------------------------------------
(* The documents the text operations are tried on: up to MaxBodyLines      *)
(* lines of headers and references, then one of the endings.               *)

MaxBodyLines == 3

BodyLines ==
    { <<"#", "#", " ">> \o Active,
      <<"#", "#", " ">> \o OnHold,
      <<"#", "#", "#", " ">> \o Foundation,
      <<"-", " ">> \o Emoji1 \o <<" ">> \o OpenLink \o Alpha \o CloseLink,
      <<"-", " ">> \o OpenLink \o Alpha \o <<"|", "A">> \o CloseLink,
      <<"-", " ">> \o OpenLink \o Beta \o CloseLink }

Endings ==
    { <<>>,
      <<Dashes, <<"notes">>>>,
      <<Dashes, <<"see", " ">> \o OpenLink \o Alpha \o CloseLink>>,
      << <<" ">> \o Dashes, <<"notes">>>>,
      << <<" ">> \o Dashes, <<"#", "#", " ">> \o OnHold,
         <<"-", " ">> \o OpenLink \o Beta \o CloseLink>>,
      << <<"-">> \o Dashes, <<"-", " ">> \o OpenLink \o Beta \o CloseLink,
         Dashes, <<"notes">>>> }

Bodies == UNION {[1..n -> BodyLines] : n \in 0..MaxBodyLines}

Texts == {Join(body \o ending) : body \in Bodies, ending \in Endings}

Frontmatters ==
    {[p \in Projects |-> [status |-> "active", group |-> NoGroup,
                          emoji |-> IF p = Alpha THEN e ELSE <<>>,
                          tagged |-> (p = Alpha)]] :
        e \in {<<>>, Emoji2}}

----------------------------------------------------------------------------
(* SpecText: one plugin method, run alone from its read to its write, on   *)
(* any of the documents above.  The dashboard is not open.                 *)

InitText ==
    /\ content \in Texts \cup {NoFile}
    /\ frontmatter \in Frontmatters
    /\ data = <<>>
    /\ jobs = <<>>
    /\ notices = 0
    /\ plugin = PluginIdle
    /\ before = content
    /\ lastOp = NoOp
    /\ view = ViewOpen

Ran(kind, projectName, status, group, newContent) ==
    /\ lastOp = NoOp
    /\ content' = newContent
    /\ before' = content
    /\ lastOp' = [kind |-> kind, project |-> projectName, status |-> status, group |-> group]
    /\ UNCHANGED <<view, frontmatter, data, jobs, notices, plugin>>

\* syncProjectStatusToPriorities(project, newStatus)
RunSyncStatus ==
    \E s \in Statuses :
        Ran("sync", Alpha, s, NoGroup, SyncProjectStatusToPriorities(content, Alpha, s))

\* removeFromPriorities(projectName)
RunRemove ==
    Ran("remove", Alpha, "", NoGroup, RemoveFromPriorities(content, Alpha))

\* addToPriorities(project.name, 'Additional', emoji)
RunAdd ==
    Ran("add", Alpha, "", NoGroup,
        AddToPriorities(content, Alpha, Additional, frontmatter[Alpha].emoji))

\* writePrioritiesFile(await parsePrioritiesFile())
RunWrite ==
    Ran("write", <<>>, "", NoGroup,
        WritePrioritiesFile(ParsePrioritiesFile(content, frontmatter).sections, content))

\* moveProjectToSubsection(projectName, targetGroup)
\* the text moveProjectToSubsection writes; none when it returns early
WriteMoved(moved, currentContent) ==
    IF moved.found THEN WritePrioritiesFile(moved.sections, currentContent)
    ELSE currentContent

RunMoveToSubsection ==
    \E g \in {NoGroup, Foundation} :
        Ran("group", Alpha, "", g,
            WriteMoved(MoveParsed(ParsePrioritiesFile(content, frontmatter), Alpha, g),
                       content))

\* the command 'Sync all projects to priorities'
Reported(done) ==
    /\ lastOp = NoOp
    /\ content' = done.content
    /\ before' = content
    /\ lastOp' = [kind |-> "syncall", project |-> <<>>, status |-> "", group |-> NoGroup,
                  synced |-> done.synced, skipped |-> done.skipped]
    /\ UNCHANGED <<view, frontmatter, data, jobs, notices, plugin>>

RunSyncAll == Reported(SyncAllProjectsToPriorities(content, frontmatter, ProjectOrder))

NextText ==
    \/ RunSyncStatus
    \/ RunSyncAll
    \/ RunRemove
    \/ RunAdd
    \/ RunWrite
    \/ RunMoveToSubsection

SpecText == InitText /\ [][NextText]_vars

----------------------------------------------------------------------------
(* SpecResync: the bulk sync alone, on any of the documents above, for     *)
(* projects with and without a status.                                     *)

StatusFrontmatters ==
    {[p \in Projects |-> [status |-> IF p = Alpha THEN a ELSE b, group |-> NoGroup,
                          emoji |-> <<>>, tagged |-> TRUE]] :
        a \in {"", "active", "complete"}, b \in {"", "on-hold"}}

InitResync ==
    /\ content \in Texts \cup {NoFile}
    /\ frontmatter \in StatusFrontmatters
    /\ data = <<>>
    /\ jobs = <<>>
    /\ notices = 0
    /\ plugin = PluginIdle
    /\ before = content
    /\ lastOp = NoOp
    /\ view = ViewOpen

SpecResync == InitResync /\ [][RunSyncAll]_vars

----------------------------------------------------------------------------
(* SpecShared: a status sync or a removal alone, on documents where a line *)
(* may link to two projects.                                               *)

SharedLines ==
    { <<"#", "#", " ">> \o Active,
      <<"#", "#", " ">> \o OnHold,
      <<"#", "#", "#", " ">> \o Foundation,
      <<"-", " ">> \o OpenLink \o Alpha \o CloseLink,
      <<"-", " ">> \o OpenLink \o Beta \o CloseLink,
      <<"-", " ">> \o OpenLink \o Beta \o CloseLink \o <<" ", "see", " ">>
          \o OpenLink \o Alpha \o CloseLink }

SharedTexts ==
    {Join(body \o <<Dashes, <<"notes">>>>) :
        body \in UNION {[1..n -> SharedLines] : n \in 0..MaxBodyLines}}

InitShared ==
    /\ content \in SharedTexts
    /\ frontmatter \in Frontmatters
    /\ data = <<>>
    /\ jobs = <<>>
    /\ notices = 0
    /\ plugin = PluginIdle
    /\ before = content
    /\ lastOp = NoOp
    /\ view = ViewOpen

NextShared ==
    \/ RunSyncStatus
    \/ RunRemove

SpecShared == InitShared /\ [][NextShared]_vars

----------------------------------------------------------------------------
(* Spec: the dashboard is open on a document it has loaded; the user       *)
(* changes statuses and removes entries there (each click edits the model  *)
(* in memory and enqueues a write), while plugin methods called from the   *)
(* modals and commands edit the same file outside the queue.               *)

\* how many operations the user starts: clicks in the dashboard and saves in
\* the modal together
MaxOperations == 2

\* the statuses picked in the dashboard's menu and in the modal, and the
\* priority groups picked in the modal
MenuStatuses == {"on-hold", "deferred"}
SavedStatuses == {"deferred", "complete", "someday"}
SavedGroups == {Foundation}

DashboardText ==
    Join(<< <<"#", "#", " ">> \o Active,
            <<"-", " ">> \o Emoji1 \o <<" ">> \o OpenLink \o Alpha \o CloseLink,
            <<"-", " ">> \o OpenLink \o Beta \o CloseLink,
            <<"#", "#", " ">> \o OnHold,
            Dashes,
            <<"notes">> >>)

InitialFrontmatter ==
    [p \in Projects |-> [status |-> "active", group |-> NoGroup, emoji |-> <<>>,
                         tagged |-> TRUE]]

Init ==
    /\ content = DashboardText
    /\ frontmatter = InitialFrontmatter
    /\ data = ParsePrioritiesFile(content, frontmatter).sections
    /\ jobs = <<>>
    /\ notices = 0
    /\ plugin = PluginIdle
    /\ before = content
    /\ lastOp = NoOp
    /\ view = ViewOpen

\* the rows renderSections has drawn: every entry with the index of its section
ItemEntries(item) ==
    IF item.type = "entry" THEN {item.entry}
    ELSE {item.subsection.entries[k] : k \in 1..Len(item.subsection.entries)}

SectionEntries(section) ==
    UNION {ItemEntries(section.orderedItems[i]) : i \in 1..Len(section.orderedItems)}

Rows == UNION {{[sectionIndex |-> si, entry |-> e] : e \in SectionEntries(data[si])} :
                  si \in 1..Len(data)}

\* sections.findIndex(sec => sec.name === name), 1-based, 0 for -1
SectionIndex(sections, name) ==
    IF \A si \in 1..Len(sections) : sections[si].name # name THEN 0
    ELSE CHOOSE si \in 1..Len(sections) :
             sections[si].name = name /\ \A sj \in 1..(si - 1) : sections[sj].name # name

\* Promise.resolve().then(fn): every job chained on a settled promise
ChainedOnResolved(queue) == 0

\* this.writeQueue.then(fn): the link the new one is chained on, as its
\* position in jobs; 0 stands for the promise writeQueue starts as
ChainedOn(queue) == Len(queue)

\* this.writeQueue.then(fn) with no catch: a rejection stays in the chain
Uncaught(outcome) == [link |-> outcome, notices |-> 0]

\* .catch(err => { console.error(..); new Notice(..) }) on what fn settled as:
\* the state of the link, and the notices shown
Caught(outcome) ==
    [link |-> "fulfilled", notices |-> IF outcome = "rejected" THEN 1 ELSE 0]

\* the subsection of the section that holds the entry object
\* (item.subsection.entries.includes(entry)); NoGroup when it is top-level
GroupOf(items, key) ==
    IF FirstItem(items, key) = 0 THEN NoGroup
    ELSE IF items[FirstItem(items, key)].type = "entry" THEN NoGroup
    ELSE items[FirstItem(items, key)].subsection.name

\* where an entry object is in the model: the index and name of its section
\* and the name of its subsection
Nowhere == [index |-> 0, section |-> NoSection, group |-> NoGroup]

ContainerIn(sections, si, key) ==
    IF si = 0 THEN Nowhere
    ELSE [index |-> si, section |-> sections[si].name,
          group |-> GroupOf(sections[si].orderedItems, key)]

Container(sections, entry) ==
    ContainerIn(sections, HolderSection(sections, ById(entry)), ById(entry))

\* ProjectDashboardView.enqueueWrite
EnqueueWrite(queue, kind, entry, status) ==
    Append(queue, [kind |-> kind, project |-> entry.projectName, status |-> status,
                   pc |-> "pending", link |-> "pending", after |-> ChainedOn(queue),
                   behind |-> (queue # <<>> /\ queue[Len(queue)].link = "pending"),
                   newContent |-> <<>>,
                   saw |-> [p \in Projects |-> {}],
                   entry |-> entry.id, group |-> NoGroup,
                   from |-> Nowhere, to |-> Nowhere, target |-> 0])

\* what the closure of the job just enqueued holds: the entry's place before
\* and after the handler's edit of the model (fromSectionIdx, sectionIndex)
\* and the priority-group the handler has fixed
Placed(queue, sectionsBefore, sectionsAfter, entry, group) ==
    [queue EXCEPT ![Len(queue)].from = Container(sectionsBefore, entry),
                  ![Len(queue)].to = Container(sectionsAfter, entry),
                  ![Len(queue)].group = group]

\* the move showStatusMenu makes in memory
MoveToSection(sections, fromIdx, toIdx, entry) ==
    IF toIdx > 0 /\ toIdx # fromIdx
    THEN [sections EXCEPT ![fromIdx] = RemoveEntryFromSection(@, entry),
                          ![toIdx] = PushEntry(@, entry)]
    ELSE sections

\* ProjectDashboardView.showStatusMenu: a click on one of the four statuses
StatusMenuClick ==
    \E row \in Rows, s \in MenuStatuses :
        /\ view.pc = "open"
        /\ ~view.dragActive
        /\ Len(jobs) + plugin.runs < MaxOperations
        /\ row.entry.projectName \in Projects
        /\ data' = MoveToSection(data, row.sectionIndex,
                                 SectionIndex(data, GetStatusSection(s)), row.entry)
        /\ jobs' = Placed(EnqueueWrite(jobs, "status", row.entry, s),
                          data, data', row.entry, NoGroup)
        /\ UNCHANGED <<view, content, frontmatter, notices, plugin, before, lastOp>>

\* SECTION_STATUS_MAP[section.name], "" for undefined
SectionStatusMap(name) ==
    IF name = Active THEN "active"
    ELSE IF name = ComingSoon THEN "coming-soon"
    ELSE IF name = DeferredEffort THEN "deferred"
    ELSE IF name = OnHold THEN "on-hold"
    ELSE ""

\* the status a drop on a section asks updateFrontmatter to set, "" for none
DropStatus(sections, fromSectionIdx, sectionIndex) ==
    IF fromSectionIdx # sectionIndex THEN SectionStatusMap(sections[sectionIndex].name)
    ELSE ""

\* ProjectDashboardView.renderSection: a dragged row is dropped on a
\* section's item list, outside every row
SectionDrop ==
    \E row \in Rows, sectionIndex \in 1..Len(data) :
        /\ view.pc = "open"
        /\ Len(jobs) + plugin.runs < MaxOperations
        /\ data' = [data EXCEPT ![row.sectionIndex] = RemoveEntryFromSection(@, row.entry),
                                ![sectionIndex] = PushEntry(@, row.entry)]
        /\ jobs' = Placed(EnqueueWrite(jobs, "drop", row.entry,
                                       DropStatus(data, row.sectionIndex, sectionIndex)),
                          data, data', row.entry, NoGroup)
        /\ UNCHANGED <<view, content, frontmatter, notices, plugin, before, lastOp>>

\* the drop zones renderSection has drawn: one under every subsection
Zones == UNION {{[sectionIndex |-> si, itemIndex |-> ii] :
                    ii \in {k \in 1..Len(data[si].orderedItems) :
                               data[si].orderedItems[k].type = "subsection"}} :
                si \in 1..Len(data)}

\* the place of the subsection object subItem among the items once the
\* dragged entry is spliced out of them
ZoneIndexAfter(items, ii, first) ==
    IF first > 0 /\ first < ii /\ items[first].type = "entry" THEN ii - 1 ELSE ii

\* subItem.subsection.entries.push(draggedEntry)
PushIntoZone(section, ii, entry) ==
    [section EXCEPT !.orderedItems[ii].subsection.entries = Append(@, entry)]

\* the model after a drop on the zone of subsection ii of section to
DroppedOnZone(sections, from, to, ii, entry) ==
    IF from = to
    THEN [sections EXCEPT ![to] =
             PushIntoZone(RemoveEntryFromSection(@, entry),
                          ZoneIndexAfter(@.orderedItems, ii,
                                         FirstItem(@.orderedItems, ById(entry))),
                          entry)]
    ELSE [sections EXCEPT ![from] = RemoveEntryFromSection(@, entry),
                          ![to] = PushIntoZone(@, ii, entry)]

\* ProjectDashboardView.renderSection: a dragged row is dropped on the drop
\* zone of a subsection
SubsectionDrop ==
    \E row \in Rows, zone \in Zones :
        /\ view.pc = "open"
        /\ Len(jobs) + plugin.runs < MaxOperations
        /\ data' = DroppedOnZone(data, row.sectionIndex, zone.sectionIndex,
                                 zone.itemIndex, row.entry)
        /\ jobs' = Placed(EnqueueWrite(jobs, "zone", row.entry,
                                       DropStatus(data, row.sectionIndex, zone.sectionIndex)),
                          data, data', row.entry,
                          data[zone.sectionIndex].orderedItems[zone.itemIndex].subsection.name)
        /\ UNCHANGED <<view, content, frontmatter, notices, plugin, before, lastOp>>

\* an insertion that never looks for the target
AppendedOnly(items, i, newEntry, key, insertBefore) == Append(items, EntryItem(newEntry))

\* insertEntryNearTarget once the item that is, or holds, the target is known
InsertNear(items, i, newEntry, key, insertBefore) ==
    IF i = 0 THEN Append(items, EntryItem(newEntry))
    ELSE IF items[i].type = "entry"
    THEN InsertIndex(items, IF insertBefore THEN i ELSE i + 1, EntryItem(newEntry))
    ELSE [items EXCEPT ![i].subsection.entries =
             InsertIndex(@, IF insertBefore THEN FirstEntry(@, key)
                            ELSE FirstEntry(@, key) + 1, newEntry)]

\* ProjectDashboardView.insertEntryNearTarget
InsertEntryNearTarget(section, newEntry, targetEntry, insertBefore) ==
    [section EXCEPT !.orderedItems =
        InsertNear(@, FirstItem(@, ById(targetEntry)), newEntry, ById(targetEntry),
                   insertBefore)]

\* the entry of the row the drop fell on, kept with the job for the record
\* (the closure of the job does not hold it)
OnRow(queue, targetEntry) == [queue EXCEPT ![Len(queue)].target = targetEntry.id]

\* ProjectDashboardView.setupDragEvents: a dragged row is dropped on a row,
\* in its upper or in its lower half
RowDrop ==
    \E row \in Rows, target \in Rows, insertBefore \in BOOLEAN :
        /\ view.pc = "open"
        /\ Len(jobs) + plugin.runs < MaxOperations
        /\ data' = [data EXCEPT
                       ![row.sectionIndex] = RemoveEntryFromSection(@, row.entry),
                       ![target.sectionIndex] =
                           InsertEntryNearTarget(@, row.entry, target.entry, insertBefore)]
        /\ jobs' = OnRow(Placed(EnqueueWrite(jobs, "row", row.entry,
                                             DropStatus(data, row.sectionIndex,
                                                        target.sectionIndex)),
                                data, data', row.entry, NoGroup),
                         target.entry)
        /\ UNCHANGED <<view, content, frontmatter, notices, plugin, before, lastOp>>

\* ProjectDashboardView.showContextMenu: 'Remove from Priorities'
RemoveClick ==
    \E row \in Rows :
        /\ view.pc = "open"
        /\ Len(jobs) + plugin.runs < MaxOperations
        /\ data' = [data EXCEPT ![row.sectionIndex] = RemoveEntryFromSection(@, row.entry)]
        /\ jobs' = Placed(EnqueueWrite(jobs, "remove", row.entry, ""),
                          data, data', row.entry, NoGroup)
        /\ UNCHANGED <<view, content, frontmatter, notices, plugin, before, lastOp>>

\* the state of the promise link i is chained on
LinkBefore(i) == IF jobs[i].after = 0 THEN "fulfilled" ELSE jobs[jobs[i].after].link

\* what a link becomes, and the notices, once fn has settled as outcome
Settled(i, pc, outcome) ==
    /\ jobs' = [jobs EXCEPT ![i].pc = pc, ![i].link = Caught(outcome).link]
    /\ notices' = notices + Caught(outcome).notices

\* The promise the link is chained on settles: then(fn) calls fn, which runs
\* to its first await (vault.read in writePrioritiesFile); a rejection
\* passes fn by
JobStart(i) ==
    /\ jobs[i].pc = "pending"
    /\ LinkBefore(i) # "pending"
    /\ IF LinkBefore(i) = "fulfilled"
       THEN jobs' = [jobs EXCEPT ![i].pc = "started"] /\ UNCHANGED notices
       ELSE Settled(i, "skipped", "rejected")
    /\ UNCHANGED <<view, content, frontmatter, data, plugin, before, lastOp>>

\* vault.read resolves: writePrioritiesFile builds the new text from the
\* model in memory and the suffix of the text read, and calls vault.modify
JobRead(i) ==
    /\ jobs[i].pc = "started"
    /\ jobs' = [jobs EXCEPT ![i].pc = "write",
                           ![i].newContent = WritePrioritiesFile(data, content),
                           ![i].saw = [p \in Projects |->
                               SectionsOf(ParsePrioritiesFile(content, frontmatter).sections, p)]]
    /\ UNCHANGED <<view, content, frontmatter, data, notices, plugin, before, lastOp>>

\* a job that always hands a null priority-group to updateFrontmatter
TargetGroupNull(job, sections) == NoGroup

\* updates['priority-group'] of a job: fixed by the handler, but looked up in
\* toSection by the job itself after a drop on a row
TargetGroup(job, sections) ==
    IF job.kind = "row"
    THEN GroupOf(sections[job.to.index].orderedItems,
                 [by |-> "id", id |-> job.entry, name |-> <<>>])
    ELSE job.group

\* vault.modify resolves; a status or move job builds its updates and goes
\* on to updateFrontmatter
JobWrite(i) ==
    /\ jobs[i].pc = "write"
    /\ content' = jobs[i].newContent
    /\ IF jobs[i].kind \in {"status", "drop", "zone", "row"}
       THEN /\ jobs' = [jobs EXCEPT ![i].pc = "frontmatter",
                                    ![i].group = TargetGroup(jobs[i], data)]
            /\ UNCHANGED notices
       ELSE Settled(i, "done", "fulfilled")
    /\ UNCHANGED <<view, frontmatter, data, plugin, before, lastOp>>

\* the keys of the updates a job hands to updateFrontmatter
UpdateKeys(job) ==
    (IF job.status # "" THEN {"status"} ELSE {})
        \cup (IF job.kind \in {"drop", "zone", "row"} THEN {"group"} ELSE {})

\* their values; a null group is NoGroup
UpdateValues(job) ==
    [status |-> job.status, group |-> job.group, emoji |-> <<>>, tagged |-> FALSE]

\* updateFrontmatter that writes the whole record anew
ReplaceFrontmatter(fm, keys, values) == values

\* ProjectControlPlugin.updateFrontmatter: the keys of updates are set (or
\* deleted for null), every other key of the frontmatter is left as it is
UpdateFrontmatter(fm, keys, values) ==
    [k \in DOMAIN fm |-> IF k \in keys THEN values[k] ELSE fm[k]]

\* the updates a job hands to updateFrontmatter, applied to the attributes
Updated(fm, job) == UpdateFrontmatter(fm, UpdateKeys(job), UpdateValues(job))

\* updateFrontmatter(entry.project.mainFile, updates) resolves
JobUpdateFrontmatter(i) ==
    /\ jobs[i].pc = "frontmatter"
    /\ frontmatter' = [frontmatter EXCEPT ![jobs[i].project] = Updated(@, jobs[i])]
    /\ Settled(i, "done", "fulfilled")
    /\ UNCHANGED <<view, content, data, plugin, before, lastOp>>

\* the call the job is awaiting (vault.read, vault.modify or
\* processFrontMatter) rejects: fn rejects
JobFails(i) ==
    /\ jobs[i].pc \in {"started", "write", "frontmatter"}
    /\ Settled(i, "failed", "rejected")
    /\ UNCHANGED <<view, content, frontmatter, data, plugin, before, lastOp>>

\* A plugin method called outside the queue, at its first read of the file
Called(kind, projectName, status, group, section, emoji) ==
    [PluginIdle EXCEPT !.pc = "read", !.kind = kind, !.project = projectName,
                       !.status = status, !.group = group, !.section = section,
                       !.emoji = emoji, !.runs = plugin.runs + 1]

\* ManageProjectModal Save with a new status: updateFrontmatter has
\* resolved and syncProjectStatusToPriorities is called; an unknown status
\* returns at once
SaveStatus ==
    \E p \in Projects : \E s \in SavedStatuses \ {frontmatter[p].status} :
        /\ plugin.pc = "idle"
        /\ Len(jobs) + plugin.runs < MaxOperations
        /\ frontmatter' = [frontmatter EXCEPT ![p].status = s]
        /\ plugin' = IF s # "complete" /\ GetStatusSection(s) = NoSection
                     THEN [PluginIdle EXCEPT !.runs = plugin.runs + 1]
                     ELSE Called("sync", p, s, NoGroup, GetStatusSection(s), NoEmoji)
        /\ UNCHANGED <<view, content, data, jobs, notices, before, lastOp>>

\* ManageProjectModal Save with a new priority group: updateFrontmatter
\* has resolved and moveProjectToSubsection is called
SaveGroup ==
    \E p \in Projects : \E g \in SavedGroups \ {frontmatter[p].group} :
        /\ plugin.pc = "idle"
        /\ Len(jobs) + plugin.runs < MaxOperations
        /\ frontmatter' = [frontmatter EXCEPT ![p].group = g]
        /\ plugin' = Called("group", p, "", g, NoSection, NoEmoji)
        /\ UNCHANGED <<view, content, data, jobs, notices, before, lastOp>>

\* the step a plugin method takes when its vault.read resolves
AfterRead(run, text, fm) ==
    IF run.kind = "sync" /\ run.status = "complete"
    THEN [run EXCEPT !.pc = "write", !.newContent = RemoveFromPriorities(text, run.project)]
    ELSE IF run.kind = "sync" /\ ProjectLines(Split(text), run.project) = {}
    THEN [run EXCEPT !.kind = "add"]
    ELSE IF run.kind = "sync"
    THEN [run EXCEPT !.pc = "write",
                     !.newContent = MoveProjectInPriorities(text, run.project, run.section)]
    ELSE IF run.kind = "add"
    THEN [run EXCEPT !.pc = "write",
                     !.newContent = AddToPriorities(text, run.project, run.section, run.emoji)]
    ELSE run

\* the step moveProjectToSubsection takes when parsePrioritiesFile resolves
AfterParse(run, moved) ==
    IF moved.found THEN [run EXCEPT !.pc = "suffix", !.sections = moved.sections]
    ELSE [PluginIdle EXCEPT !.runs = run.runs]

\* vault.read resolves in removeFromPriorities, moveProjectInPriorities,
\* addToPriorities or, for a group move, in parsePrioritiesFile
PluginRead ==
    /\ plugin.pc = "read"
    /\ plugin' = IF plugin.kind = "group"
                 THEN AfterParse(plugin,
                                 MoveProjectToSubsection(
                                     ParsePrioritiesFile(content, frontmatter).sections,
                                     plugin.project, plugin.group))
                 ELSE AfterRead(plugin, content, frontmatter)
    /\ UNCHANGED <<view, content, frontmatter, data, jobs, notices, before, lastOp>>

\* vault.read resolves in the writePrioritiesFile of a group move
PluginReadSuffix ==
    /\ plugin.pc = "suffix"
    /\ plugin' = [plugin EXCEPT !.pc = "write",
                                !.newContent = WritePrioritiesFile(plugin.sections, content)]
    /\ UNCHANGED <<view, content, frontmatter, data, jobs, notices, before, lastOp>>

\* vault.modify resolves and the plugin method returns
PluginWrite ==
    /\ plugin.pc = "write"
    /\ content' = plugin.newContent
    /\ before' = content
    /\ lastOp' = [kind |-> plugin.kind, project |-> plugin.project,
                  status |-> plugin.status, group |-> plugin.group]
    /\ plugin' = [PluginIdle EXCEPT !.runs = plugin.runs]
    /\ UNCHANGED <<view, frontmatter, data, jobs, notices>>

\* vault.read or vault.modify rejects in a plugin method called outside the
\* queue: no method of the plugin has a try around them, so the promise the
\* method returned to its caller rejects
PluginFails ==
    /\ plugin.pc \in {"read", "suffix", "write"}
    /\ plugin' = [PluginIdle EXCEPT !.runs = plugin.runs, !.rejected = TRUE]
    /\ UNCHANGED <<view, content, frontmatter, data, jobs, notices, before, lastOp>>

\* an onClose that waits for nothing
ResolvedTail(queue) == 0

\* this.writeQueue as onClose reads it: the last link of the chain
QueueTail(queue) == ChainedOn(queue)

\* ProjectDashboardView.onClose is called: await this.writeQueue.  The view
\* takes no click once it is closing.
Close ==
    /\ view.pc = "open"
    /\ view' = [view EXCEPT !.pc = "closing", !.awaits = QueueTail(jobs)]
    /\ UNCHANGED <<content, frontmatter, data, jobs, notices, plugin, before, lastOp>>

\* the link onClose awaits has settled: onClose returns
Closed ==
    /\ view.pc = "closing"
    /\ view.awaits > 0 => jobs[view.awaits].link # "pending"
    /\ view' = [view EXCEPT !.pc = "closed"]
    /\ UNCHANGED <<content, frontmatter, data, jobs, notices, plugin, before, lastOp>>

Next ==
    \/ StatusMenuClick
    \/ RemoveClick
    \/ SectionDrop
    \/ \E i \in 1..Len(jobs) : JobStart(i)
    \/ \E i \in 1..Len(jobs) : JobRead(i)
    \/ \E i \in 1..Len(jobs) : JobWrite(i)
    \/ \E i \in 1..Len(jobs) : JobUpdateFrontmatter(i)
    \/ \E i \in 1..Len(jobs) : JobFails(i)
    \/ SaveStatus
    \/ SaveGroup
    \/ PluginRead
    \/ PluginReadSuffix
    \/ PluginWrite
    \/ PluginFails

Spec == Init /\ [][Next]_vars

----------------------------------------------------------------------------
(* SpecClose: the dashboard and its queue alone, until the view is closed. *)
(* Every read and write a job awaits settles in the end, by resolving or   *)
(* by rejecting, and onClose returns once the link it awaits has settled.  *)

\* a step of a job that is not the resolution of its vault.read.  While
\* the read is pending its rejection, JobFails, is enabled, so that the
\* fairness of these steps makes the read settle as well.
JobSettles ==
    \E i \in 1..Len(jobs) :
        JobStart(i) \/ JobWrite(i) \/ JobUpdateFrontmatter(i) \/ JobFails(i)

NextClose ==
    \/ StatusMenuClick
    \/ RemoveClick
    \/ \E i \in 1..Len(jobs) : JobStart(i)
    \/ \E i \in 1..Len(jobs) : JobRead(i)
    \/ \E i \in 1..Len(jobs) : JobWrite(i)
    \/ \E i \in 1..Len(jobs) : JobUpdateFrontmatter(i)
    \/ \E i \in 1..Len(jobs) : JobFails(i)
    \/ Close
    \/ Closed

SpecClose == Init /\ [][NextClose]_vars /\ WF_vars(JobSettles) /\ WF_vars(Closed)

----------------------------------------------------------------------------
(* SpecReload: the dashboard with its queue, reloads of the document       *)
(* (loadData) and drags that start, drop on a section and end as separate  *)
(* events.                                                                 *)

MaxLoads == 2

\* The entry objects of the n-th parse are new objects: their identities
\* differ from those of every other parse.
Reborn(entry, n) == [entry EXCEPT !.id = @ * (MaxLoads + 1) + n]

RebornItem(item, n) ==
    IF item.type = "entry" THEN EntryItem(Reborn(item.entry, n))
    ELSE SubsectionItem([name |-> item.subsection.name,
                         entries |-> [k \in 1..Len(item.subsection.entries) |->
                                         Reborn(item.subsection.entries[k], n)]])

Generation(sections, n) ==
    [si \in 1..Len(sections) |->
        [name |-> sections[si].name,
         orderedItems |-> [i \in 1..Len(sections[si].orderedItems) |->
                              RebornItem(sections[si].orderedItems[i], n)]]]

InitReload ==
    /\ content = DashboardText
    /\ frontmatter = InitialFrontmatter
    /\ data = Generation(ParsePrioritiesFile(content, frontmatter).sections, 0)
    /\ jobs = <<>>
    /\ notices = 0
    /\ plugin = PluginIdle
    /\ before = content
    /\ lastOp = NoOp
    /\ view = ViewOpen

\* loadData is called (the Reload button, or a delayed reload):
\* if (this.dragActive) return; await this.writeQueue
Reload ==
    /\ view.pc = "open"
    /\ view.load = "idle"
    /\ view.loads < MaxLoads
    /\ ~view.dragActive
    /\ view' = [view EXCEPT !.load = "queue", !.loadAwaits = QueueTail(jobs),
                            !.loads = @ + 1]
    /\ UNCHANGED <<content, frontmatter, data, jobs, notices, plugin, before, lastOp>>

\* the link loadData awaits has settled: parsePrioritiesFile calls vault.read
LoadResumes ==
    /\ view.load = "queue"
    /\ view.loadAwaits > 0 => jobs[view.loadAwaits].link # "pending"
    /\ view' = [view EXCEPT !.load = "read"]
    /\ UNCHANGED <<content, frontmatter, data, jobs, notices, plugin, before, lastOp>>

\* vault.read takes the text of the file
LoadReads ==
    /\ view.load = "read"
    /\ view' = [view EXCEPT !.load = "parse", !.text = content]
    /\ UNCHANGED <<content, frontmatter, data, jobs, notices, plugin, before, lastOp>>

\* vault.read resolves: the text is parsed and this.data = the new document
LoadInstalls ==
    /\ view.load = "parse"
    /\ data' = Generation(ParsePrioritiesFile(view.text, frontmatter).sections, view.loads)
    /\ view' = [view EXCEPT !.load = "idle", !.text = <<>>]
    /\ UNCHANGED <<content, frontmatter, jobs, notices, plugin, before, lastOp>>

\* dragstart on a row: this.dragActive = true; this.dragState = {..}
DragStart ==
    \E row \in Rows :
        /\ view.pc = "open"
        /\ ~view.dragActive
        /\ view' = [view EXCEPT !.dragActive = TRUE, !.sourceEntry = row.entry,
                                !.sourceSectionIndex = row.sectionIndex]
        /\ UNCHANGED <<content, frontmatter, data, jobs, notices, plugin, before, lastOp>>

\* the view once dragend has run: this.dragActive = false; this.dragState = null
DragEnded(v) ==
    [v EXCEPT !.dragActive = FALSE, !.sourceEntry = NoEntry, !.sourceSectionIndex = 0]

\* dragend of a drag that is given up, with no drop
DragEnd ==
    /\ view.dragActive
    /\ view' = DragEnded(view)
    /\ UNCHANGED <<content, frontmatter, data, jobs, notices, plugin, before, lastOp>>

\* drop on the item list of a section, with the dragState of the
\* dragstart; the dragend that follows the drop is part of the step
DragDrop ==
    \E sectionIndex \in 1..Len(data) :
        /\ view.pc = "open"
        /\ view.dragActive
        /\ view.sourceSectionIndex <= Len(data)
        /\ Len(jobs) + plugin.runs < MaxOperations
        /\ data' = [data EXCEPT
                       ![view.sourceSectionIndex] = RemoveEntryFromSection(@, view.sourceEntry),
                       ![sectionIndex] = PushEntry(@, view.sourceEntry)]
        /\ jobs' = Placed(EnqueueWrite(jobs, "drop", view.sourceEntry,
                                       DropStatus(data, view.sourceSectionIndex, sectionIndex)),
                          data, data', view.sourceEntry, NoGroup)
        /\ view' = DragEnded(view)
        /\ UNCHANGED <<content, frontmatter, notices, plugin, before, lastOp>>

NextReload ==
    \/ StatusMenuClick
    \/ DragStart
    \/ DragDrop
    \/ DragEnd
    \/ Reload
    \/ LoadResumes
    \/ LoadReads
    \/ LoadInstalls
    \/ \E i \in 1..Len(jobs) : JobStart(i)
    \/ \E i \in 1..Len(jobs) : JobRead(i)
    \/ \E i \in 1..Len(jobs) : JobWrite(i)
    \/ \E i \in 1..Len(jobs) : JobUpdateFrontmatter(i)

SpecReload == InitReload /\ [][NextReload]_vars

----------------------------------------------------------------------------
(* Properties of the write queue, checked under Spec.                      *)

Running == {i \in 1..Len(jobs) : jobs[i].pc \in {"started", "write", "frontmatter"}}

Over(i) == jobs[i].pc \in {"done", "failed", "skipped"}

\* the document as parsePrioritiesFile reads it from a text
Doc(text) == ParsePrioritiesFile(text, frontmatter).sections

\* C1: queued jobs run in the order they were enqueued: a job has not left
\* the queue (started) unless every job enqueued before it is over, by
\* success or by failure; and at most one job is between its start and its
\* completion.
C1_JobsRunInOrderOneAtATime ==
    /\ Cardinality(Running) <= 1
    /\ \A i \in 1..Len(jobs) : \A j \in (i + 1)..Len(jobs) :
           jobs[j].pc # "pending" => Over(i)

\* a job enqueued while the one before it was not over has started after
\* that one ended in a failure
C1_Witness ==
    /\ Len(jobs) >= 2
    /\ jobs[2].behind
    /\ jobs[1].pc = "failed"
    /\ jobs[2].pc = "write"

\* the read-modify-write cycles in flight: the text has been read and the
\* write built from it has not been made yet; 0 stands for the plugin method
InFlight ==
    {i \in 1..Len(jobs) : jobs[i].pc = "write"}
        \cup (IF plugin.pc \in {"suffix", "write"} THEN {0} ELSE {})

\* C2: the read-modify-write cycles on the document, whatever started them
\* (a dashboard job, a status change or a group change saved in the modal),
\* are one at a time: no two of them are between their read and their write.
C2_CyclesOneAtATime == Cardinality(InFlight) <= 1

\* job i sets a project on hold, job j, enqueued right behind it before it
\* had finished, removes the same project, and nothing but the queue writes
ScenarioC(i, j) ==
    /\ j = i + 1
    /\ jobs[i].kind = "status" /\ jobs[i].status = "on-hold"
    /\ jobs[j].kind = "remove" /\ jobs[j].project = jobs[i].project
    /\ jobs[j].behind
    /\ plugin.runs = 0

\* C3: in Scenario C job 2 does not start before job 1 is over, it reads the
\* text job 1 wrote, what it writes holds no entry of the project, and so
\* does the document once it is done.
C3_RemovalAfterOnHold ==
    \A i \in 1..Len(jobs) : \A j \in 1..Len(jobs) :
        ScenarioC(i, j) =>
            /\ jobs[j].pc # "pending" => Over(i)
            /\ jobs[j].pc = "started" /\ jobs[i].pc = "done" => content = jobs[i].newContent
            /\ jobs[j].pc \in {"write", "done"} =>
                   SectionsOf(Doc(jobs[j].newContent), jobs[j].project) = {}
            /\ jobs[j].pc = "done" => SectionsOf(Doc(content), jobs[j].project) = {}

\* both jobs of Scenario C are done, and job 1 had put the project on hold
C3_Witness ==
    /\ Len(jobs) = 2
    /\ ScenarioC(1, 2)
    /\ jobs[1].pc = "done" /\ jobs[2].pc = "done"
    /\ SectionsOf(Doc(jobs[1].newContent), jobs[1].project) = {OnHold}

\* the projects a job of the queue has moved or removed in memory
Targeted == {jobs[k].project : k \in 1..Len(jobs)}

\* C4: what a job writes is the text it read with its own change applied: a
\* project no job has touched is, in the text the job writes, in the
\* sections it was in in the text the job read.
C4_JobWritesOverFreshParse ==
    \A i \in 1..Len(jobs) : \A p \in Projects \ Targeted :
        jobs[i].pc \in {"write", "frontmatter", "done"} =>
            SectionsOf(Doc(jobs[i].newContent), p) = jobs[i].saw[p]

\* C5: each failed job has shown one notice, the promise the next job is
\* chained on is fulfilled all the same, no job is passed over, and a job
\* that waits behind jobs that are all over, failed or not, is free to start.
C5_FailureReportedQueueContinues ==
    /\ notices = Cardinality({i \in 1..Len(jobs) : jobs[i].pc = "failed"})
    /\ \A i \in 1..Len(jobs) :
           /\ jobs[i].pc # "skipped"
           /\ Over(i) => jobs[i].link = "fulfilled"
           /\ jobs[i].pc = "pending" /\ (\A k \in 1..(i - 1) : Over(k)) =>
                  LinkBefore(i) = "fulfilled"

\* a job failed, one notice was shown, and the job enqueued behind it has
\* run to its end
C5_Witness ==
    /\ Len(jobs) >= 2
    /\ jobs[1].pc = "failed"
    /\ jobs[2].behind
    /\ jobs[2].pc = "done"
    /\ notices = 1

----------------------------------------------------------------------------
(* Properties of the text operations, checked under SpecText: before is    *)
(* the text an operation read and content the text it wrote.               *)

\* C6: whatever the operation (a model write, a status sync, a removal, an
\* add, a group move), the text from the first `---` line to the end is the
\* same after the write as before.
C6_TrailingRegionKept ==
    lastOp # NoOp => TrailingRegion(content) = TrailingRegion(before)

\* C7: writing the parsed document back gives a text that parses to the
\* same sections, subsections and entries in the same order, and leaves the
\* trailing region as it was.
C7_RoundTrip ==
    lastOp.kind = "write" =>
        /\ Structure(Doc(content)) = Structure(Doc(before))
        /\ TrailingRegion(content) = TrailingRegion(before)

\* C8: after a status sync with active, coming-soon, deferred or on-hold the
\* project is in the section the status maps to and in no other.
C8_SyncPutsEntryInMappedSection ==
    lastOp.kind = "sync" /\ lastOp.status \in SectionStatuses =>
        SectionsOf(Doc(content), lastOp.project) = {GetStatusSection(lastOp.status)}

\* C9: after a status sync with complete no section holds an entry of the
\* project, and the parser meets no reference to it.
C9_CompleteRemovesEntry ==
    lastOp.kind = "sync" /\ lastOp.status = "complete" =>
        /\ SectionsOf(Doc(content), lastOp.project) = {}
        /\ lastOp.project \notin ParsePrioritiesFile(content, frontmatter).found

\* a sync with complete has run on a document that had the project in a
\* section
C9_Witness ==
    /\ lastOp.kind = "sync" /\ lastOp.status = "complete"
    /\ SectionsOf(Doc(before), lastOp.project) # {}

\* C10: a second status sync of the same project with the same status
\* leaves the sections, subsections and entries as the first one left them.
C10_SyncIdempotent ==
    lastOp.kind = "sync" =>
        Structure(Doc(SyncProjectStatusToPriorities(content, lastOp.project, lastOp.status)))
            = Structure(Doc(content))

\* the project has entries, all of them in the section its status maps to
InPlace(text, projectName, status) ==
    /\ status \in SectionStatuses
    /\ SectionsOf(Doc(text), projectName) = {GetStatusSection(status)}

\* C11: a status sync of a project whose entry is already in the section of
\* the status moves nothing: sections, subsections and entries are in the
\* same order after it as before; and so for the bulk sync of projects that
\* are all in place.
C11_SyncInPlaceMovesNothing ==
    /\ lastOp.kind = "sync" /\ InPlace(before, lastOp.project, lastOp.status) =>
           Structure(Doc(content)) = Structure(Doc(before))
    /\ lastOp.kind = "syncall"
           /\ (\A p \in Projects : InPlace(before, p, frontmatter[p].status)) =>
           Structure(Doc(content)) = Structure(Doc(before))

----------------------------------------------------------------------------
(* SpecMoves: the dashboard alone, open on a document with a subsection;   *)
(* the user changes statuses in the menu and drags rows onto sections,     *)
(* drop zones and other rows; every job runs to its end.                   *)

GroupedText ==
    Join(<< <<"#", "#", " ">> \o Active,
            <<"-", " ">> \o Emoji1 \o <<" ">> \o OpenLink \o Alpha \o CloseLink,
            <<"#", "#", "#", " ">> \o Foundation,
            <<"-", " ">> \o OpenLink \o Beta \o CloseLink,
            <<"#", "#", " ">> \o OnHold,
            Dashes,
            <<"notes">> >>)

GroupedFrontmatter ==
    [p \in Projects |->
        [status |-> "active",
         group |-> IF p = Beta THEN Foundation ELSE NoGroup,
         emoji |-> IF p = Alpha THEN Emoji2 ELSE <<>>,
         tagged |-> TRUE]]

InitMoves ==
    /\ content = GroupedText
    /\ frontmatter = GroupedFrontmatter
    /\ data = ParsePrioritiesFile(content, frontmatter).sections
    /\ jobs = <<>>
    /\ notices = 0
    /\ plugin = PluginIdle
    /\ before = content
    /\ lastOp = NoOp
    /\ view = ViewOpen

NextMoves ==
    \/ StatusMenuClick
    \/ SectionDrop
    \/ SubsectionDrop
    \/ RowDrop
    \/ RemoveClick
    \/ \E i \in 1..Len(jobs) : JobStart(i)
    \/ \E i \in 1..Len(jobs) : JobRead(i)
    \/ \E i \in 1..Len(jobs) : JobWrite(i)
    \/ \E i \in 1..Len(jobs) : JobUpdateFrontmatter(i)

SpecMoves == InitMoves /\ [][NextMoves]_vars

----------------------------------------------------------------------------
(* Properties of the write-back of attributes, checked under SpecMoves.    *)

\* no job enqueued after job i is about the same project
LastFor(i) == \A k \in (i + 1)..Len(jobs) : jobs[k].project # jobs[i].project

MoveKinds == {"drop", "zone", "row"}

\* C12: once the job of a status change that moved the entry to another
\* section (to its top level) is done, the project's priority-group
\* attribute is cleared.
C12_StatusMoveClearsGroup ==
    \A i \in 1..Len(jobs) :
        /\ jobs[i].kind = "status" /\ jobs[i].pc = "done"
        /\ jobs[i].from.index # jobs[i].to.index
        /\ LastFor(i)
        => frontmatter[jobs[i].project].group = NoGroup

\* the status attribute is the one the section table gives for the section
\* the move put the entry in, when it gives one
StatusWrittenBack(job) ==
    SectionStatusMap(job.to.section) # "" =>
        frontmatter[job.project].status = SectionStatusMap(job.to.section)

\* the priority-group attribute is the name of the subsection the move put
\* the entry in, absent when it put it at top level
GroupWrittenBack(job) == frontmatter[job.project].group = job.to.group

C14_WriteBackTouchesOnlyStatusAndGroup ==
    [][\A p \in Projects :
          /\ frontmatter'[p].emoji = frontmatter[p].emoji
          /\ frontmatter'[p] # frontmatter[p] =>
                 \E i \in 1..Len(jobs) :
                     /\ jobs[i].project = p
                     /\ jobs[i].pc = "frontmatter"
                     /\ jobs'[i].pc = "done"]_vars

\* the job of a drop on the drop zone is done for the project that has an
\* emoji attribute: its group is written and its emoji is still there
C14_Witness ==
    \E i \in 1..Len(jobs) :
        /\ jobs[i].kind = "zone" /\ jobs[i].pc = "done"
        /\ jobs[i].project = Alpha
        /\ frontmatter[Alpha].group = Foundation
        /\ frontmatter[Alpha].emoji = Emoji2

----------------------------------------------------------------------------
(* Scenario A, checked under SpecText.                                     *)

AlphaLine == <<"-", " ">> \o Emoji1 \o <<" ">> \o OpenLink \o Alpha \o CloseLink

\* "## Active\n- e1 [[Alpha]]\n## On Hold\n---\nnotes"
ScenarioAText ==
    Join(<< <<"#", "#", " ">> \o Active, AlphaLine, <<"#", "#", " ">> \o OnHold,
            Dashes, <<"notes">> >>)

\* "## Active\n\n## On Hold\n- e1 [[Alpha]]\n\n---\nnotes"
ScenarioAWritten ==
    Join(<< <<"#", "#", " ">> \o Active, <<>>, <<"#", "#", " ">> \o OnHold, AlphaLine,
            <<>>, Dashes, <<"notes">> >>)

\* "## Active\n\n## On Hold\n- e1 [[Alpha]]\n---\nnotes"
ScenarioASynced ==
    Join(<< <<"#", "#", " ">> \o Active, <<>>, <<"#", "#", " ">> \o OnHold, AlphaLine,
            Dashes, <<"notes">> >>)

AlphaEntry == [projectName |-> Alpha, emoji |-> Emoji1, alias |-> <<>>]

ScenarioAParsed ==
    << [name |-> Active, orderedItems |-> <<EntryItem(AlphaEntry)>>],
       [name |-> OnHold, orderedItems |-> <<>>] >>

ScenarioAMoved ==
    << [name |-> Active, orderedItems |-> <<>>],
       [name |-> OnHold, orderedItems |-> <<EntryItem(AlphaEntry)>>] >>

\* a status sync of Alpha to on-hold has run on the text of Scenario A, Alpha
\* having no emoji attribute of its own
ScenarioA ==
    /\ before = ScenarioAText
    /\ frontmatter[Alpha].emoji = <<>>
    /\ lastOp.kind = "sync" /\ lastOp.project = Alpha /\ lastOp.status = "on-hold"

\* C15: the text of Scenario A parses to Active with the entry Alpha (emoji
\* e1) and an empty On Hold; after the sync of Alpha to on-hold Active is
\* empty and On Hold holds Alpha; and the text the sync wrote is
\* "## Active\n\n## On Hold\n- e1 [[Alpha]]\n\n---\nnotes".
C15_ScenarioAExactText ==
    ScenarioA =>
        /\ Structure(Doc(before)) = ScenarioAParsed
        /\ Structure(Doc(content)) = ScenarioAMoved
        /\ content = ScenarioAWritten

\* C15, amended: parse and sync are as stated; the text the sync wrote has
\* no empty line before the separator; the stated text is the one
\* writePrioritiesFile makes of the document, be it the one parsed from the
\* sync's text or the one the status menu has moved the entry in.
C15_ScenarioASerialized ==
    ScenarioA =>
        /\ Structure(Doc(before)) = ScenarioAParsed
        /\ Structure(Doc(content)) = ScenarioAMoved
        /\ content = ScenarioASynced
        /\ WritePrioritiesFile(Doc(content), content) = ScenarioAWritten
        /\ WritePrioritiesFile(
               MoveToSection(Doc(before), 1, SectionIndex(Doc(before), OnHold),
                             EntryIn(Doc(before)[1].orderedItems, ByName(Alpha))),
               before) = ScenarioAWritten

C15_Witness == ScenarioA /\ content # before

----------------------------------------------------------------------------
(* moveProjectToSubsection, checked under SpecText on the document parsed  *)
(* from the text the method read.                                          *)

\* every entry of a document in reading order, with the index of its
\* section and the number of its subsection among the subsections of that
\* section (0 for a top-level entry)
RECURSIVE ListItems(_, _, _, _)
ListItems(items, i, si, nsub) ==
    IF i > Len(items) THEN <<>>
    ELSE IF items[i].type = "entry"
    THEN <<[entry |-> items[i].entry, section |-> si, sub |-> 0]>>
             \o ListItems(items, i + 1, si, nsub)
    ELSE [k \in 1..Len(items[i].subsection.entries) |->
             [entry |-> items[i].subsection.entries[k], section |-> si, sub |-> nsub + 1]]
             \o ListItems(items, i + 1, si, nsub + 1)

RECURSIVE ListSections(_, _)
ListSections(sections, si) ==
    IF si > Len(sections) THEN <<>>
    ELSE ListItems(sections[si].orderedItems, 1, si, 0) \o ListSections(sections, si + 1)

Listing(sections) == ListSections(sections, 1)

\* the names of the subsections of a section, in order
RECURSIVE SubsectionNames(_, _)
SubsectionNames(items, i) ==
    IF i > Len(items) THEN <<>>
    ELSE IF items[i].type = "subsection"
    THEN <<items[i].subsection.name>> \o SubsectionNames(items, i + 1)
    ELSE SubsectionNames(items, i + 1)

Headers(sections) ==
    [si \in 1..Len(sections) |->
        [name |-> sections[si].name, subs |-> SubsectionNames(sections[si].orderedItems, 1)]]

\* the number of the first subsection of that name, 0 when there is none
FirstNamed(names, name) ==
    IF \A k \in 1..Len(names) : names[k] # name THEN 0
    ELSE CHOOSE k \in 1..Len(names) : names[k] = name /\ \A j \in 1..(k - 1) : names[j] # name

\* what a lookup by project name answers: the place of the first entry of
\* that name in reading order, 0 when there is none
LookupIn(listing, projectName) ==
    IF \A k \in 1..Len(listing) : listing[k].entry.projectName # projectName THEN 0
    ELSE CHOOSE k \in 1..Len(listing) :
             /\ listing[k].entry.projectName = projectName
             /\ \A j \in 1..(k - 1) : listing[j].entry.projectName # projectName

PlacesOf(listing, id) == {k \in 1..Len(listing) : listing[k].entry.id = id}

\* the listing without the entry object of that identity
Others(listing, id) ==
    LET Other(r) == r.entry.id # id IN SelectSeq(listing, Other)

\* the document moveProjectToSubsection read, and the one it wrote
Read == Doc(before)
Moved == MoveProjectToSubsection(Doc(before), lastOp.project, lastOp.group).sections

\* moveProjectToSubsection(p, g) has run and p had an entry
MovedToGroup ==
    /\ lastOp.kind = "group" /\ lastOp.group # NoGroup
    /\ LookupIn(Listing(Read), lastOp.project) > 0

MovedToTop ==
    /\ lastOp.kind = "group" /\ lastOp.group = NoGroup
    /\ LookupIn(Listing(Read), lastOp.project) > 0

\* the entry `was` of the document read is in the document written once,
\* in the same section, as the last entry of subsection number sub when
\* sub > 0 and as the last item of the section otherwise
AppendedTo(written, listing, was, sub) ==
    /\ Cardinality(PlacesOf(listing, was.entry.id)) = 1
    /\ \A k \in PlacesOf(listing, was.entry.id) :
        /\ listing[k].section = was.section
        /\ listing[k].sub = sub
        /\ IF sub > 0
           THEN \A j \in (k + 1)..Len(listing) :
                    ~(listing[j].section = was.section /\ listing[j].sub = sub)
           ELSE /\ written[was.section].orderedItems # <<>>
                /\ written[was.section].orderedItems[Len(written[was.section].orderedItems)]
                       = EntryItem(was.entry)

IntoSubsectionOf(headers, written, was) ==
    /\ Headers(written) = headers
    /\ AppendedTo(written, Listing(written), was,
                  FirstNamed(headers[was.section].subs, lastOp.group))

IntoSubsection(headers, written, listing) ==
    IntoSubsectionOf(headers, written, listing[LookupIn(listing, lastOp.project)])

\* C16: moveProjectToSubsection(p, g) with a group g takes p's entry out of
\* its container and appends it to the first subsection named g of the
\* section the entry was in; when that section has no such subsection the
\* entry is appended as a top-level item of that section; no section or
\* subsection is created and the entry stays in its section.
C16_MoveIntoSubsectionOfOwnSection ==
    MovedToGroup => IntoSubsection(Headers(Read), Moved, Listing(Read))

\* both cases of C16 among the moves seen: into a subsection from outside
\* it, and the fallback of Scenario B
C16_Witness ==
    /\ MovedToGroup
    /\ Moved # Read
    /\ Listing(Read)[LookupIn(Listing(Read), lastOp.project)].sub = 0
    /\ Listing(Moved)[LookupIn(Listing(Moved), lastOp.project)].sub > 0
    /\ content # before

C16_ScenarioB ==
    /\ MovedToGroup
    /\ Headers(Read)[Listing(Read)[LookupIn(Listing(Read), lastOp.project)].section].subs = <<>>
    /\ Len(Read[Listing(Read)[LookupIn(Listing(Read), lastOp.project)].section].orderedItems) > 1
    /\ Moved # Read

\* the entry `was` is in the document written once, at the top level of its
\* section, after entries only and right before the first subsection or at
\* the end
BeforeFirstSubsection(items, listing, was) ==
    /\ Cardinality(PlacesOf(listing, was.entry.id)) = 1
    /\ \A k \in PlacesOf(listing, was.entry.id) :
           listing[k].section = was.section /\ listing[k].sub = 0
    /\ \E i \in 1..Len(items) :
        /\ items[i] = EntryItem(was.entry)
        /\ \A j \in 1..(i - 1) : items[j].type = "entry"
        /\ i = Len(items) \/ items[i + 1].type = "subsection"

ToTopLevelOf(headers, written, was) ==
    /\ Headers(written) = headers
    /\ BeforeFirstSubsection(written[was.section].orderedItems, Listing(written), was)

ToTopLevel(headers, written, listing) ==
    ToTopLevelOf(headers, written, listing[LookupIn(listing, lastOp.project)])

\* C17: moveProjectToSubsection(p, null) puts p's entry at the top level of
\* the section it was in, right before the first subsection of that section
\* or at its end when it has none, so that no subsection is above it.
C17_MoveToTopLevelBeforeSubsections ==
    MovedToTop => ToTopLevel(Headers(Read), Moved, Listing(Read))

\* an entry has been taken out of a subsection and put above it
C17_Witness ==
    /\ MovedToTop
    /\ Listing(Read)[LookupIn(Listing(Read), lastOp.project)].sub > 0
    /\ Moved # Read
    /\ content # before

\* the answer of a lookup by project name has the same emoji and alias
SameAnswer(listingBefore, listingAfter, projectName) ==
    /\ LookupIn(listingAfter, projectName) > 0
    /\ listingAfter[LookupIn(listingAfter, projectName)].entry.emoji
           = listingBefore[LookupIn(listingBefore, projectName)].entry.emoji
    /\ listingAfter[LookupIn(listingAfter, projectName)].entry.alias
           = listingBefore[LookupIn(listingBefore, projectName)].entry.alias

MovedAny ==
    /\ lastOp.kind = "group"
    /\ LookupIn(Listing(Read), lastOp.project) > 0

SameOthers(listingBefore, listingAfter, was) ==
    Others(listingAfter, was.entry.id) = Others(listingBefore, was.entry.id)

SameLookupSameOthers(listingBefore, listingAfter) ==
    /\ SameAnswer(listingBefore, listingAfter, lastOp.project)
    /\ SameOthers(listingBefore, listingAfter,
                  listingBefore[LookupIn(listingBefore, lastOp.project)])

\* C18: after moveProjectToSubsection(p, g) a lookup of p by project name
\* answers an entry with the emoji and alias it had before, and every other
\* entry is in the container it was in, in the same order.
C18_LookupAfterMoveSameEntry ==
    MovedAny => SameLookupSameOthers(Listing(Read), Listing(Moved))

\* the entry object `was` is in the listing once, emoji and alias included
Kept(listing, was) ==
    /\ Cardinality(PlacesOf(listing, was.entry.id)) = 1
    /\ \A k \in PlacesOf(listing, was.entry.id) : listing[k].entry = was.entry

Single(listing, projectName) ==
    Cardinality({k \in 1..Len(listing) : listing[k].entry.projectName = projectName}) = 1

SameEntrySameOthers(listingBefore, listingAfter) ==
    /\ Kept(listingAfter, listingBefore[LookupIn(listingBefore, lastOp.project)])
    /\ SameOthers(listingBefore, listingAfter,
                  listingBefore[LookupIn(listingBefore, lastOp.project)])
    /\ Single(listingBefore, lastOp.project) =>
           SameAnswer(listingBefore, listingAfter, lastOp.project)

\* C18, amended: the entry moved is in the document once with the emoji and
\* alias it had, every other entry is in the container it was in, in the
\* same order, and when p has one entry a lookup of p answers that entry.
C18_MovedEntryKeepsEmojiAndAlias ==
    MovedAny => SameEntrySameOthers(Listing(Read), Listing(Moved))

\* an aliased entry has been moved past another entry
C18_Witness ==
    /\ MovedAny
    /\ Listing(Read)[LookupIn(Listing(Read), lastOp.project)].entry.alias # <<>>
    /\ Len(Listing(Read)) > 1
    /\ Listing(Moved) # Listing(Read)
    /\ content # before

----------------------------------------------------------------------------
(* The unlisted projects, checked under SpecText on the text of the file   *)
(* before and after each method.                                           *)

\* the unlisted set a parse of the text returns
UnlistedIn(text) == Unlisted(ParsePrioritiesFile(text, frontmatter), frontmatter)

\* the project names of the entries of the parsed document
EntryNames(listing) == {listing[k].entry.projectName : k \in 1..Len(listing)}

TaggedMinusEntries(unlisted, names) ==
    \A p \in Projects \cup {Ghost} :
        p \in unlisted <=> (p \in Projects /\ frontmatter[p].tagged /\ p \notin names)

\* what the parse returned: its unlisted set against the entries of its sections
TaggedWithoutEntry(parsed) ==
    TaggedMinusEntries(Unlisted(parsed, frontmatter), EntryNames(Listing(parsed.sections)))

\* C19: after every parse the unlisted set is the set of the projects that
\* carry the tag and are the project of no entry of the parsed document.
C19_UnlistedIsTaggedMinusEntries ==
    TaggedWithoutEntry(ParsePrioritiesFile(content, frontmatter))

\* a method has taken the last entry of a tagged project out of the file,
\* which also holds an entry of a project without the tag
C19_Witness ==
    /\ lastOp.kind = "remove"
    /\ Alpha \in UnlistedIn(content) /\ Alpha \notin UnlistedIn(before)
    /\ Beta \in EntryNames(Listing(Doc(content))) /\ ~frontmatter[Beta].tagged

\* C20: once addToPriorities has run for a project that was unlisted, the
\* next parse does not have the project in the unlisted set.
C20_AddedProjectNoLongerUnlisted ==
    (lastOp.kind = "add" /\ lastOp.project \in UnlistedIn(before))
        => lastOp.project \notin UnlistedIn(content)

----------------------------------------------------------------------------
(* The in-memory document of the dashboard, checked under SpecMoves.       *)

\* no entry object is listed twice
OnePlaceEach(listing) ==
    \A i \in 1..Len(listing) : \A j \in 1..Len(listing) :
        listing[i].entry.id = listing[j].entry.id => i = j

GroupTargets == {NoGroup, Foundation}

\* the documents moveProjectToSubsection would write for the file as it is
GroupMoves(sections) ==
    {MoveProjectToSubsection(sections, p, g).sections : p \in Projects, g \in GroupTargets}

\* C21: in the document the dashboard holds, after its load and after every
\* drop, status change and removal, and in the document a group move makes
\* of the file, no entry object is in two places: each is in one section
\* and there at the top level or in one subsection.
C21_EveryEntryInOnePlace ==
    /\ OnePlaceEach(Listing(data))
    /\ \A moved \in GroupMoves(Doc(content)) : OnePlaceEach(Listing(moved))

\* an entry has gone into the subsection by a drop on a row and an entry
\* has changed section by the status menu
C21_Witness ==
    /\ \E i \in 1..Len(jobs) :
           jobs[i].kind = "row" /\ jobs[i].from.group = NoGroup /\ jobs[i].to.group = Foundation
    /\ \E j \in 1..Len(jobs) :
           jobs[j].kind = "status" /\ jobs[j].from.index # jobs[j].to.index
    /\ Len(Listing(data)) = 2

----------------------------------------------------------------------------
(* The priorities file is absent, checked under SpecText.                  *)

\* C22: when the path of the priorities file resolves to no file, the parse
\* returns null and every method (status sync, bulk sync, removal, addition,
\* group move, write of the model) returns with nothing written: there is
\* still no file.
C22_AbsentFileNothingWritten ==
    /\ content = NoFile => ParsePrioritiesFile(content, frontmatter) = NoDocument
    /\ (lastOp.kind # "none" /\ before = NoFile) => content = NoFile

\* the write of the model has been called with no file there
C22_Witness ==
    /\ lastOp.kind = "write"
    /\ before = NoFile
    /\ content = NoFile

----------------------------------------------------------------------------
(* Failures of vault.read and vault.modify, checked under Spec.            *)

\* the status attribute of the project and the section of its entries in
\* the file agree: no entry when complete, and no entry outside the section
\* of the status when the file has that section
Agree(sections, p, status) ==
    IF status = "complete" THEN SectionsOf(sections, p) = {}
    ELSE IF SectionIndex(sections, GetStatusSection(status)) > 0
    THEN SectionsOf(sections, p) \subseteq {GetStatusSection(status)}
    ELSE TRUE

\* one operation has been started, it has failed and nothing is running
OneFailed ==
    /\ Len(jobs) + plugin.runs = 1
    /\ plugin.pc = "idle"
    /\ \A i \in 1..Len(jobs) : jobs[i].pc = "failed"
    /\ plugin.rejected \/ jobs # <<>>

\* C23: a read or write that fails in a status change, a group change, a
\* manual move or a bulk sync is caught by the queue and no caller gets a
\* rejected promise; after the failed operation the file and the status
\* attributes agree.
C23_FailuresCaughtAndConsistent ==
    /\ ~plugin.rejected
    /\ OneFailed => \A p \in Projects : Agree(Doc(content), p, frontmatter[p].status)

----------------------------------------------------------------------------
(* No cancellation, checked under SpecClose.                               *)

Ended(i) == Len(jobs) >= i /\ jobs[i].pc \in {"done", "failed"}

\* C24: every job enqueued runs in the end to completion or to failure,
\* the reads and writes of the jobs before it settling; and onClose returns
\* in the end, and when it has returned every job of the queue has ended.
C24_EveryJobEndsCloseWaits ==
    /\ \A i \in 1..MaxOperations : (Len(jobs) >= i) ~> Ended(i)
    /\ (view.pc = "closing") ~> (view.pc = "closed")
    /\ [](view.pc = "closed" => \A i \in 1..Len(jobs) : Ended(i))

\* the view has closed behind a queue of jobs, one of which failed
C24_Witness ==
    /\ view.pc = "closed"
    /\ Len(jobs) = MaxOperations
    /\ \E i \in 1..Len(jobs) : jobs[i].pc = "failed"
    /\ \E i \in 1..Len(jobs) : jobs[i].pc = "done"

----------------------------------------------------------------------------
(* The parser, checked under SpecText on the text of the file before and   *)
(* after each method.                                                      *)

\* the lines before the first line that is exactly `---`
RECURSIVE BeforeSeparator(_)
BeforeSeparator(lines) ==
    IF lines = <<>> \/ Head(lines) = Dashes THEN <<>>
    ELSE <<Head(lines)>> \o BeforeSeparator(Tail(lines))

\* the parse of all of the lines given
ParseAll(lines, fm) ==
    ParseResult(ParseLoopToEnd([sections |-> <<>>, sub |-> [name |-> <<>>, entries |-> <<>>],
                                hasSub |-> FALSE, found |-> {}],
                               lines, 1, fm))

\* C25: the parse stops at the first line that is exactly `---`: the
\* document and the found projects are those of the lines before that line,
\* and no line from that line on gives a section, a subsection, an entry or
\* a found name.
C25_ParseStopsAtExactSeparator ==
    IsFile(content) =>
        ParsePrioritiesFile(content, frontmatter)
            = ParseAll(BeforeSeparator(Split(content)), frontmatter)

----------------------------------------------------------------------------
(* The structure the parser gives a text, stated from the lines alone.     *)

\* the lines the loop reads: those before the first line that is `---`
\* once trimmed
RECURSIVE LinesRead(_)
LinesRead(lines) ==
    IF lines = <<>> \/ Trim(Head(lines)) = Dashes THEN <<>>
    ELSE <<Head(lines)>> \o LinesRead(Tail(lines))

IsSectionLine(lines, i) == SectionMatch(lines[i])
IsSubsectionLine(lines, i) == ~SectionMatch(lines[i]) /\ SubsectionMatch(lines[i])
IsEntryLine(lines, i) ==
    ~SectionMatch(lines[i]) /\ ~SubsectionMatch(lines[i]) /\ LinkMatch(lines[i]).found

\* the section headers above line i, and the last of them (0 for none)
SectionsAbove(lines, i) == {j \in 1..(i - 1) : IsSectionLine(lines, j)}
LastSectionAbove(lines, i) ==
    IF SectionsAbove(lines, i) = {} THEN 0
    ELSE CHOOSE j \in SectionsAbove(lines, i) : \A k \in SectionsAbove(lines, i) : k <= j

\* the subsection headers between the last section header above i and i
SubsectionsAbove(lines, i) ==
    {j \in (LastSectionAbove(lines, i) + 1)..(i - 1) : IsSubsectionLine(lines, j)}

\* where the entry of line i is to be: in the section of the last section
\* header above it, in the subsection of the last subsection header since
RECURSIVE PlacesFrom(_, _)
PlacesFrom(lines, i) ==
    IF i > Len(lines) THEN <<>>
    ELSE IF IsEntryLine(lines, i) /\ SectionsAbove(lines, i) # {}
    THEN <<[id |-> i, section |-> Cardinality(SectionsAbove(lines, i)),
            sub |-> Cardinality(SubsectionsAbove(lines, i))]>> \o PlacesFrom(lines, i + 1)
    ELSE PlacesFrom(lines, i + 1)

\* the names of the subsection headers from line i to the next section header
RECURSIVE SubsectionsFrom(_, _)
SubsectionsFrom(lines, i) ==
    IF i > Len(lines) \/ IsSectionLine(lines, i) THEN <<>>
    ELSE IF IsSubsectionLine(lines, i)
    THEN <<SubsectionName(lines[i])>> \o SubsectionsFrom(lines, i + 1)
    ELSE SubsectionsFrom(lines, i + 1)

RECURSIVE HeadersFrom(_, _)
HeadersFrom(lines, i) ==
    IF i > Len(lines) THEN <<>>
    ELSE IF IsSectionLine(lines, i)
    THEN <<[name |-> SectionName(lines[i]), subs |-> SubsectionsFrom(lines, i + 1)]>>
             \o HeadersFrom(lines, i + 1)
    ELSE HeadersFrom(lines, i + 1)

\* the place of every entry of a document, in reading order
Places(listing) ==
    [k \in 1..Len(listing) |->
        [id |-> listing[k].entry.id, section |-> listing[k].section, sub |-> listing[k].sub]]

AsTheLinesSay(sections, lines) ==
    /\ Headers(sections) = HeadersFrom(lines, 1)
    /\ Places(Listing(sections)) = PlacesFrom(lines, 1)

ReadAsTheLinesSay(text) ==
    IsFile(text) => AsTheLinesSay(Doc(text), LinesRead(Split(text)))

\* C26: of the text writePrioritiesFile has read, and of the text it has
\* written, the parsed document has a section for every section header and
\* in it, in the order of the text, one subsection for every subsection
\* header below it, empty ones included; every entry line is an entry of
\* the subsection opened last in its section, or of the top level of the
\* section when none is open; subsection headers and entry lines above the
\* first section header give nothing.
C26_StructureFollowsHeaders ==
    lastOp.kind = "write" => ReadAsTheLinesSay(before) /\ ReadAsTheLinesSay(content)

\* the text read had a subsection header above its first section header
\* and, in a section, a subsection with no entry
C26_Witness ==
    /\ lastOp.kind = "write"
    /\ IsFile(before)
    /\ SubsectionMatch(Split(before)[1])
    /\ \E si \in 1..Len(Doc(before)) :
           \E i \in 1..Len(Doc(before)[si].orderedItems) :
               /\ Doc(before)[si].orderedItems[i].type = "subsection"
               /\ Doc(before)[si].orderedItems[i].subsection.entries = <<>>

----------------------------------------------------------------------------
(* The emoji, name and alias of a parsed entry.                            *)

\* a prefix if any, then the link with its alias if any
PrefixedLink(prefix, name, alias) ==
    (IF prefix = <<>> THEN <<>> ELSE prefix \o <<" ">>)
        \o OpenLink \o name \o (IF alias = <<>> THEN <<>> ELSE <<"|">> \o alias) \o CloseLink

\* a reference line: the same behind the list marker
ReferenceLine(prefix, name, alias) == <<"-", " ">> \o PrefixedLink(prefix, name, alias)

\* the line has that link, behind that prefix, with the list marker or not
LineReads(line, prefix, name, alias) ==
    line \in {ReferenceLine(prefix, name, alias), PrefixedLink(prefix, name, alias)}

Prefixes == {<<>>, Emoji1, Emoji2, <<"see">>}

HasEmojiAttribute(fm, name) == name \in DOMAIN fm /\ fm[name].emoji # <<>>

\* the entry is the one of its line, but for an emoji the attributes give
EntryAsLineAndAttribute(entry, line, fm) ==
    IF HasEmojiAttribute(fm, entry.projectName)
    THEN /\ entry.emoji = fm[entry.projectName].emoji
         /\ \E prefix \in Prefixes :
                LineReads(line, prefix, entry.projectName, entry.alias)
    ELSE LineReads(line, entry.emoji, entry.projectName, entry.alias)

EntriesAsLinesAndAttributes(listing, lines, fm) ==
    \A k \in 1..Len(listing) :
        EntryAsLineAndAttribute(listing[k].entry, lines[listing[k].entry.id], fm)

ReadAsLinesAndAttributes(text) ==
    IsFile(text) => EntriesAsLinesAndAttributes(Listing(Doc(text)), Split(text), frontmatter)

\* C27: of the text writePrioritiesFile has read, and of the text it has
\* written, every parsed entry has the name and the alias of the link on
\* its line; its emoji is the emoji attribute of the project when the
\* project has one that is not empty, whatever stands before the link, and
\* the text between the marker and the link otherwise.
C27_EmojiFromAttributeElseLine ==
    lastOp.kind = "write" =>
        ReadAsLinesAndAttributes(before) /\ ReadAsLinesAndAttributes(content)

\* an entry read from a line with another prefix than the emoji attribute
\* of its project, beside an entry of a project with no emoji attribute
C27_Witness ==
    /\ lastOp.kind = "write"
    /\ IsFile(before)
    /\ frontmatter[Alpha].emoji = Emoji2
    /\ \E k \in 1..Len(Listing(Doc(before))) :
           /\ Listing(Doc(before))[k].entry.emoji = Emoji2
           /\ Split(before)[Listing(Doc(before))[k].entry.id]
                  = ReferenceLine(Emoji1, Alpha, <<>>)
    /\ \E k \in 1..Len(Listing(Doc(before))) :
           /\ Listing(Doc(before))[k].entry.projectName = Beta
           /\ Listing(Doc(before))[k].entry.emoji = <<>>

----------------------------------------------------------------------------
(* insertEntryNearTarget, checked on every document SpecMoves reaches.     *)

\* seq with x put right before, or right after, its element k
PutBeside(seq, k, x, insertBefore) ==
    IF insertBefore THEN SubSeq(seq, 1, k - 1) \o <<x, seq[k]>> \o SubSeq(seq, k + 1, Len(seq))
    ELSE SubSeq(seq, 1, k - 1) \o <<seq[k], x>> \o SubSeq(seq, k + 1, Len(seq))

TopLevelAt(items, i, id) == items[i].type = "entry" /\ items[i].entry.id = id

InSubsectionAt(items, i, k, id) == items[i].subsection.entries[k].id = id

\* the entries an item lists below it: none for a top-level entry
EntriesBelow(item) == IF item.type = "subsection" THEN item.subsection.entries ELSE <<>>

\* after is items with the new entry beside the target, in the list that
\* holds the target, or at the end of items when no list holds it
BesideTarget(items, after, newEntry, targetId, insertBefore) ==
    /\ \A i \in 1..Len(items) :
           TopLevelAt(items, i, targetId) =>
               after = PutBeside(items, i, EntryItem(newEntry), insertBefore)
    /\ \A i \in 1..Len(items) : \A k \in 1..Len(EntriesBelow(items[i])) :
           InSubsectionAt(items, i, k, targetId) =>
               after = [items EXCEPT ![i].subsection.entries =
                                         PutBeside(@, k, newEntry, insertBefore)]
    /\ (\A i \in 1..Len(items) : ~ItemHolds(items[i], [by |-> "id", id |-> targetId, name |-> <<>>]))
           => after = items \o <<EntryItem(newEntry)>>

InsertedBesideTarget(section, newEntry, targetEntry, insertBefore) ==
    BesideTarget(section.orderedItems,
                 InsertEntryNearTarget(section, newEntry, targetEntry, insertBefore).orderedItems,
                 newEntry, targetEntry.id, insertBefore)

\* C28: for every row that can be dragged, every row it can be dropped on
\* and either half of that row: the section of the target, once the dragged
\* entry is out of it, gets the entry right before or right after the
\* target in the list that holds the target (the top-level items or the
\* entries of a subsection) and nothing else moves; when no list of the
\* section holds the target the entry becomes the last top-level item.
C28_InsertedBesideTargetInItsContainer ==
    \A row \in Rows, target \in Rows, insertBefore \in BOOLEAN :
        InsertedBesideTarget(RemoveEntryFromSection(data[target.sectionIndex], row.entry),
                             row.entry, target.entry, insertBefore)

\* a row has been dragged out of the subsection and dropped on a top-level
\* row: it is a top-level item beside another one
C28_Witness ==
    \E j \in 1..Len(jobs) :
        /\ jobs[j].kind = "row"
        /\ jobs[j].from.group = Foundation
        /\ jobs[j].to.group = NoGroup
        /\ \E i \in 1..(Len(data[jobs[j].to.index].orderedItems) - 1) :
               /\ TopLevelAt(data[jobs[j].to.index].orderedItems, i, jobs[j].entry)
               /\ data[jobs[j].to.index].orderedItems[i + 1].type = "entry"

----------------------------------------------------------------------------
(* What the edits of the document in memory leave alone, checked under     *)
(* SpecMoves.                                                              *)

\* the sections of the dashboard that do not hold the entry of the row
OtherSections(row) == {si \in 1..Len(data) : si # row.sectionIndex}

RemovalElsewhereChangesNothing ==
    \A row \in Rows : \A si \in OtherSections(row) :
        RemoveEntryFromSection(data[si], row.entry) = data[si]

GroupMovesKeepHeaders(sections) ==
    \A moved \in GroupMoves(sections) : Headers(moved) = Headers(sections)

\* C29: every drop, status-menu change and removal on the dashboard, and
\* every group move on the file, leaves the sections and their subsections
\* as they were: the same names in the same order, none added and none
\* gone, a subsection that has lost its last entry included; and taking an
\* entry out of a section that does not hold it changes nothing.
C29_EditsKeepSectionsAndSubsections ==
    /\ [][Headers(data') = Headers(data)]_vars
    /\ [](GroupMovesKeepHeaders(Doc(content)) /\ RemovalElsewhereChangesNothing)

\* the only entry of the subsection has been removed and another has been
\* dropped on a section: the subsection is still there, empty
C29_Witness ==
    /\ \E j \in 1..Len(jobs) : jobs[j].kind = "remove" /\ jobs[j].from.group = Foundation
    /\ \E j \in 1..Len(jobs) : jobs[j].kind = "drop" /\ jobs[j].from.index # jobs[j].to.index
    /\ \E si \in 1..Len(data) : \E i \in 1..Len(data[si].orderedItems) :
           /\ data[si].orderedItems[i].type = "subsection"
           /\ data[si].orderedItems[i].subsection.entries = <<>>

----------------------------------------------------------------------------
(* The bulk sync, checked under SpecResync.                                *)

HasMainFileAndStatus(fm, project) == project \in DOMAIN fm /\ fm[project].status # ""

\* the projects of the list that have a main file and a status, in order
RECURSIVE Eligible(_, _)
Eligible(fm, projects) ==
    IF projects = <<>> THEN <<>>
    ELSE IF HasMainFileAndStatus(fm, Head(projects))
    THEN <<Head(projects)>> \o Eligible(fm, Tail(projects))
    ELSE Eligible(fm, Tail(projects))

\* the status sync of each project of the list in turn, each on the text
\* the one before has left
RECURSIVE SyncedInTurn(_, _, _)
SyncedInTurn(text, fm, projects) ==
    IF projects = <<>> THEN text
    ELSE SyncedInTurn(SyncProjectStatusToPriorities(text, Head(projects),
                                                    fm[Head(projects)].status),
                      fm, Tail(projects))

SyncedExactly(eligible, fm) ==
    /\ content = SyncedInTurn(before, fm, eligible)
    /\ lastOp.synced = Len(eligible)
    /\ lastOp.skipped = Len(ProjectOrder) - Len(eligible)
    /\ lastOp.synced + lastOp.skipped = Len(ProjectOrder)
    /\ eligible = <<>> => content = before

\* C30: the bulk sync leaves the file as the status syncs of the projects
\* that have a main file and a status leave it, run one after the other in
\* the order of the projects; the other projects change nothing; it reports
\* as synced the number of the former and as skipped the number of the
\* latter, which add up to the number of projects.
C30_BulkSyncSyncsEligibleCountsAll ==
    lastOp.kind = "syncall" => SyncedExactly(Eligible(frontmatter, ProjectOrder), frontmatter)

\* one project synced, with a change of the file, and two skipped: one with
\* no main file and one with no status
C30_Witness ==
    /\ lastOp.kind = "syncall"
    /\ lastOp.synced = 1
    /\ lastOp.skipped = 2
    /\ frontmatter[Beta].status = ""
    /\ content # before

----------------------------------------------------------------------------
(* Where the parser stops and where the writer's suffix starts.            *)

\* the number of the line the parser stops at: the first line that is `---`
\* once trimmed; one past the last line when there is none
RECURSIVE StopLine(_, _)
StopLine(lines, i) ==
    IF i > Len(lines) \/ Trim(lines[i]) = Dashes THEN i ELSE StopLine(lines, i + 1)

\* the number of line breaks of the text before offset k
LineBreaksBefore(text, k) == Cardinality({j \in 1..(k - 1) : text[j] = NL})

\* the number of the first line the writer keeps: the line after the line
\* break its suffix starts with; one past the last line when it keeps none
SuffixLine(text, separatorIndex) ==
    IF separatorIndex = 0 THEN Len(Split(text)) + 1
    ELSE LineBreaksBefore(text, separatorIndex) + 2

StopsWhereSuffixStarts(text) ==
    StopLine(Split(text), 1) = SuffixLine(text, IndexOf(text, <<NL>> \o Dashes))

\* C31: of the text writePrioritiesFile reads, the line the parser stops at
\* is the first line of the suffix the writer keeps: no line is parsed and
\* kept, and no line from the stop on is left out of what is written.
C31_ParserStopIsSuffixStart ==
    lastOp.kind = "write" /\ IsFile(before) => StopsWhereSuffixStarts(before)

----------------------------------------------------------------------------
(* The document in memory and the parse of what is written for it,         *)
(* checked under SpecMoves.                                                *)

\* the project, the section and the subsection (0 for the top level) of
\* every entry of a document, in reading order
NamedPlaces(listing) ==
    [k \in 1..Len(listing) |->
        [projectName |-> listing[k].entry.projectName,
         section |-> listing[k].section, sub |-> listing[k].sub]]

\* the text writePrioritiesFile writes for the sections parses to sections
\* with the same names and subsections and every entry in the same place
ReadBackAs(sections, written) ==
    /\ Headers(Doc(written)) = Headers(sections)
    /\ NamedPlaces(Listing(Doc(written))) = NamedPlaces(Listing(sections))

WrittenReadsBack(sections) == ReadBackAs(sections, WritePrioritiesFile(sections, content))

\* C32: the document the dashboard holds after any of its drops, status
\* changes and removals, and every document a group move makes of the file,
\* is read back from the text writePrioritiesFile writes for it with each
\* entry in the same section and in the same subsection, or at the top
\* level, as in memory.
C32_WrittenDocumentReadsBackEqual ==
    /\ WrittenReadsBack(data)
    /\ \A moved \in GroupMoves(Doc(content)) : WrittenReadsBack(moved)

----------------------------------------------------------------------------
(* The order of the items of a parsed section, checked under SpecText.     *)

\* no top-level entry stands behind a subsection
EntriesFirst(items) ==
    \A i \in 1..Len(items) : \A j \in (i + 1)..Len(items) :
        ~(items[i].type = "subsection" /\ items[j].type = "entry")

EntriesFirstIn(sections) ==
    \A si \in 1..Len(sections) : EntriesFirst(sections[si].orderedItems)

\* C33: in the document parsed from the text writePrioritiesFile reads, and
\* in the one parsed from the text it writes, the top-level entries of
\* every section all come before its subsections.
C33_TopLevelEntriesBeforeSubsections ==
    lastOp.kind = "write" => EntriesFirstIn(Doc(before)) /\ EntriesFirstIn(Doc(content))

\* the text read has a top-level entry, then a subsection header, then an
\* entry line: the section has the entry and behind it the subsection
C33_Witness ==
    /\ lastOp.kind = "write"
    /\ \E si \in 1..Len(Doc(before)) :
           /\ Len(Doc(before)[si].orderedItems) = 2
           /\ Doc(before)[si].orderedItems[1].type = "entry"
           /\ Doc(before)[si].orderedItems[2].type = "subsection"
           /\ Len(Doc(before)[si].orderedItems[2].subsection.entries) = 1

----------------------------------------------------------------------------
(* A row dropped on itself, checked under SpecMoves.                       *)

\* job i is the job of a drop of a row on itself
OnItself(queue, i) == queue[i].kind = "row" /\ queue[i].target = queue[i].entry

\* the step is the drop of a row on itself
DroppedOnItself ==
    /\ Len(jobs') = Len(jobs) + 1
    /\ OnItself(jobs', Len(jobs'))

\* the step is the write of the attributes by the job of such a drop
WritesBackOnItself(i) ==
    /\ OnItself(jobs, i)
    /\ jobs[i].pc = "frontmatter"
    /\ jobs'[i].pc = "done"

\* C34: the drop of a row on itself leaves the document in memory as it
\* was, and the job of the drop leaves the status and the priority-group of
\* the project as they were.
C34_DropOnItselfChangesNothing ==
    [][/\ DroppedOnItself => data' = data
       /\ \A i \in 1..Len(jobs) : WritesBackOnItself(i) => frontmatter' = frontmatter]_vars

----------------------------------------------------------------------------
(* Reloads and drags, checked under SpecReload.                            *)

\* the step puts a newly parsed document in place of the one in memory
Installs == view.load = "parse" /\ view'.load = "idle"

\* the projects that have two entries in the document
TwiceListed(listing) ==
    {listing[k].entry.projectName : k \in
        {j \in 1..Len(listing) :
            \E i \in 1..(j - 1) : listing[i].entry.projectName = listing[j].entry.projectName}}

\* C35: loadData puts no new document in place while a drag is in
\* progress, so that no drop leaves a project with two entries in the
\* document in memory.
C35_NoReloadDuringDrag ==
    /\ [][Installs => ~view.dragActive]_vars
    /\ [](TwiceListed(Listing(data)) = {})

\* the document in memory is the parse of the text of the file
ParseOfFile(sections, text, n) ==
    sections = Generation(ParsePrioritiesFile(text, frontmatter).sections, n)

\* C36: when loadData puts a document in place, it is the parse of the
\* text the file holds then, the text the last write that has completed
\* has left, also when a job has been enqueued since loadData was called.
C36_ReloadInstallsParseOfFile ==
    [][Installs => ParseOfFile(data', content, view.loads)]_vars

----------------------------------------------------------------------------
(* What is on disk once the queue is idle, checked under SpecReload.       *)

\* no job is pending or running, and the last one enqueued has succeeded
IdleAfterSuccess ==
    /\ jobs # <<>>
    /\ \A i \in 1..Len(jobs) : jobs[i].pc \in {"done", "failed", "skipped"}
    /\ jobs[Len(jobs)].pc = "done"

\* the text of the file above the suffix the writer keeps
ModelledRegion(text) == SubSeq(text, 1, Len(text) - Len(PreservedSuffix(text)))

\* the file holds what writePrioritiesFile writes for the document
OnDisk(sections, text) == ModelledRegion(text) = Join(SectionsLines(sections))

\* the last job of the queue moved its entry to a section, and the file
\* has the project in that section and in no other
LastMoveOnDisk(job, sections) ==
    job.to.index > 0 => SectionsOf(sections, job.project) = {job.to.section}

\* C37: whenever no job is left to run and the last job has succeeded, the
\* file, above the suffix, is the serialization of the document in
\* memory, and the move that job was enqueued for is in the file.
C37_IdleQueueMeansPersisted ==
    IdleAfterSuccess =>
        /\ OnDisk(data, content)
        /\ LastMoveOnDisk(jobs[Len(jobs)], Doc(content))

----------------------------------------------------------------------------
(* What a status sync and a removal leave alone.                           *)

\* the name of the subsection of a listed entry, NoGroup for the top level
SubsectionOf(headers, place) ==
    IF place.sub = 0 THEN NoGroup ELSE headers[place.section].subs[place.sub]

\* the entries of the other projects, in reading order, each with its
\* alias, its section and its subsection
NamedAmong(listing, headers, projectName) ==
    LET Other(r) == r.projectName # projectName
    IN  SelectSeq([k \in 1..Len(listing) |->
                      [projectName |-> listing[k].entry.projectName,
                       alias |-> listing[k].entry.alias,
                       section |-> headers[listing[k].section].name,
                       sub |-> SubsectionOf(headers, listing[k])]],
                  Other)

OtherEntries(sections, projectName) ==
    NamedAmong(Listing(sections), Headers(sections), projectName)

\* C38: a status sync and a removal for a project leave the entries of
\* every other project as they were: the same entries in the same sections
\* and subsections, in the same order, in the parsed document.
C38_OtherProjectsUntouched ==
    lastOp.kind \in {"sync", "remove"} /\ IsFile(before) =>
        OtherEntries(Doc(content), lastOp.project) = OtherEntries(Doc(before), lastOp.project)

----------------------------------------------------------------------------
(* One entry for each project.                                             *)

ListedOnce(text) == TwiceListed(Listing(Doc(text))) = {}

\* C39: addToPriorities, a status sync and a removal leave each project
\* with at most one entry in the priorities document when it had at most
\* one before: adding a project that is listed makes no second entry.
C39_AtMostOneEntryEach ==
    lastOp.kind \in {"add", "sync", "remove"} /\ IsFile(before) /\ ListedOnce(before) =>
        ListedOnce(content)

====
